---- MODULE Spec2Model ----
(***************************************************************************)
(* A model of the resource adapters of terraform-provider-oci:             *)
(*   - oci/load_balancer_backend_resource.go  (BackendResourceCrud)        *)
(*   - oci/core_drg_route_distribution_resource.go                         *)
(*                                  (CoreDrgRouteDistributionResourceCrud) *)
(* and of two generated types of the vendored SDK:                         *)
(*   - jms.WorkItemTypeEnum                                                *)
(*   - fleetappsmanagement.PatchTypeConfigCategoryDetails                  *)
(*                                                                         *)
(* Go strings are sequences of one-character strings.  An optional value   *)
(* (a Go pointer, a map that may be nil, an attribute that may be absent)  *)
(* is the empty tuple None or the one-element tuple Some(v).               *)
(***************************************************************************)
EXTENDS Integers, Sequences, FiniteSets, TLC

None == << >>

Some(v) == << v >>

IsSome(o) == Len(o) = 1

Val(o) == o[1]

(***************************************************************************)
(* Bytes and characters.  Printable ASCII is written as itself; any other  *)
(* byte n (and the backquote, byte 96) is the token "\xHH".                 *)
(***************************************************************************)
Printable ==
  << " ", "!", "\"", "#", "$", "%", "&", "'", "(", ")", "*", "+", ",", "-", ".", "/",
     "0", "1", "2", "3", "4", "5", "6", "7", "8", "9", ":", ";", "<", "=", ">", "?",
     "@", "A", "B", "C", "D", "E", "F", "G", "H", "I", "J", "K", "L", "M", "N", "O",
     "P", "Q", "R", "S", "T", "U", "V", "W", "X", "Y", "Z", "[", "\\", "]", "^", "_",
     "\\x60", "a", "b", "c", "d", "e", "f", "g", "h", "i", "j", "k", "l", "m", "n", "o",
     "p", "q", "r", "s", "t", "u", "v", "w", "x", "y", "z", "{", "|", "}", "~" >>

UpperHex == << "0", "1", "2", "3", "4", "5", "6", "7", "8", "9", "A", "B", "C", "D", "E", "F" >>

Chr(n) ==
  IF n >= 32 /\ n <= 126 THEN Printable[n - 31]
  ELSE "\\x" \o UpperHex[(n \div 16) + 1] \o UpperHex[(n % 16) + 1]

Ord(c) == CHOOSE n \in 0..255 : Chr(n) = c

Digits == { "0", "1", "2", "3", "4", "5", "6", "7", "8", "9" }

Letters == { Chr(n) : n \in (65..90) \cup (97..122) }

\* net/url ishex / unhex
IsHex(c) == c \in Digits \cup { "a", "b", "c", "d", "e", "f", "A", "B", "C", "D", "E", "F" }

UnHex(c) ==
  IF c \in Digits THEN Ord(c) - 48
  ELSE IF Ord(c) >= 97 THEN Ord(c) - 97 + 10
  ELSE Ord(c) - 65 + 10

\* net/url shouldEscape(c, encodePathSegment)
ShouldEscape(c) ==
  IF c \in Letters \cup Digits THEN FALSE
  ELSE IF c \in { "-", "_", ".", "~" } THEN FALSE
  ELSE IF c \in { "$", "&", "+", ",", "/", ":", ";", "=", "?", "@" }
       THEN c \in { "/", ";", ",", "?" }
  ELSE TRUE

RECURSIVE PathEscape(_)
\* net/url PathEscape: every byte that must be escaped becomes %HH (upper case)
PathEscape(s) ==
  IF s = << >> THEN << >>
  ELSE LET c == Head(s) IN
       (IF ShouldEscape(c)
        THEN << "%", UpperHex[(Ord(c) \div 16) + 1], UpperHex[(Ord(c) % 16) + 1] >>
        ELSE << c >>) \o PathEscape(Tail(s))

RECURSIVE ValidEscapesFrom(_, _)
\* net/url unescape, first pass, from byte i on: every % is followed by two
\* hex digits
ValidEscapesFrom(s, i) ==
  IF i > Len(s) THEN TRUE
  ELSE IF s[i] = "%"
       THEN /\ i + 2 <= Len(s)
            /\ IsHex(s[i + 1])
            /\ IsHex(s[i + 2])
            /\ ValidEscapesFrom(s, i + 3)
  ELSE ValidEscapesFrom(s, i + 1)

RECURSIVE DecodeFrom(_, _)
\* net/url unescape, second pass, from byte i on (mode encodePathSegment: "+"
\* is kept)
DecodeFrom(s, i) ==
  IF i > Len(s) THEN << >>
  ELSE IF s[i] = "%"
       THEN << Chr(UnHex(s[i + 1]) * 16 + UnHex(s[i + 2])) >> \o DecodeFrom(s, i + 3)
  ELSE << s[i] >> \o DecodeFrom(s, i + 1)

\* net/url PathUnescape: [str |-> decoded or "", err |-> an error was returned]
PathUnescape(s) ==
  IF ValidEscapesFrom(s, 1) THEN [str |-> DecodeFrom(s, 1), err |-> FALSE]
  ELSE [str |-> << >>, err |-> TRUE]

RECURSIVE SplitFrom(_, _, _, _)
\* the pieces of s from position start on, the bytes before i holding no sep
SplitFrom(s, sep, start, i) ==
  IF i > Len(s) THEN << SubSeq(s, start, Len(s)) >>
  ELSE IF s[i] = sep
       THEN << SubSeq(s, start, i - 1) >> \o SplitFrom(s, sep, i + 1, i + 1)
  ELSE SplitFrom(s, sep, start, i + 1)

\* strings.Split(s, sep) for a one-character separator
Split(s, sep) == SplitFrom(s, sep, 1, 1)

\* strings.HasPrefix
HasPrefix(s, prefix) ==
  Len(s) >= Len(prefix) /\ SubSeq(s, 1, Len(prefix)) = prefix

\* the substring of s starting at position i is lit
OccursAt(s, lit, i) ==
  i >= 1 /\ i + Len(lit) - 1 <= Len(s) /\ SubSeq(s, i, i + Len(lit) - 1) = lit

\* strings.Contains
Contains(s, lit) == \E i \in 1..(Len(s) + 1) : OccursAt(s, lit, i)

RECURSIVE NatDigits(_)
NatDigits(n) ==
  IF n < 10 THEN << Chr(48 + n) >> ELSE NatDigits(n \div 10) \o << Chr(48 + (n % 10)) >>

\* strconv.Itoa
Itoa(n) == IF n < 0 THEN << "-" >> \o NatDigits(0 - n) ELSE NatDigits(n)

(***************************************************************************)
(* String literals of load_balancer_backend_resource.go                    *)
(***************************************************************************)
\* "ocid1.loadbalancerworkrequest." (Get)
WorkRequestIdPrefix ==
  << "o", "c", "i", "d", "1", ".", "l", "o", "a", "d", "b", "a", "l", "a", "n", "c", "e", "r", "w", "o", "r", "k", "r", "e", "q", "u", "e", "s", "t", "." >>

\* "ocid1.loadbalancerworkrequest" (Delete)
WorkRequestIdMarker ==
  << "o", "c", "i", "d", "1", ".", "l", "o", "a", "d", "b", "a", "l", "a", "n", "c", "e", "r", "w", "o", "r", "k", "r", "e", "q", "u", "e", "s", "t" >>

\* "loadBalancers/"
LitLoadBalancers == << "l", "o", "a", "d", "B", "a", "l", "a", "n", "c", "e", "r", "s", "/" >>

\* "/backendSets/"
LitBackendSets == << "/", "b", "a", "c", "k", "e", "n", "d", "S", "e", "t", "s", "/" >>

\* "/backends/"
LitBackends == << "/", "b", "a", "c", "k", "e", "n", "d", "s", "/" >>

NewLine == Chr(10)

\* the id built without escaping the names
getBackendCompositeId_NotEscaped(backendName, backendSetName, loadBalancerId) ==
  LitLoadBalancers \o loadBalancerId \o LitBackendSets \o backendSetName
    \o LitBackends \o backendName

\* getBackendCompositeId
getBackendCompositeId(backendName, backendSetName, loadBalancerId) ==
  LitLoadBalancers \o PathEscape(loadBalancerId) \o LitBackendSets
    \o PathEscape(backendSetName) \o LitBackends \o PathEscape(backendName)

\* s[from..to] holds no newline: what the regexp's ".*" can match
NoNewLine(s, from, to) == \A i \in from..to : s[i] # NewLine

\* regexp.MatchString("loadBalancers/.*/backendSets/.*/backends/.*", s): the
\* pattern is not anchored, and "." matches every character but a newline
CompositeIdRegexpMatch(s) ==
  \E i \in 1..Len(s) :
    /\ OccursAt(s, LitLoadBalancers, i)
    /\ \E j \in (i + Len(LitLoadBalancers))..Len(s) :
         /\ OccursAt(s, LitBackendSets, j)
         /\ NoNewLine(s, i + Len(LitLoadBalancers), j - 1)
         /\ \E k \in (j + Len(LitBackendSets))..Len(s) :
              /\ OccursAt(s, LitBackends, k)
              /\ NoNewLine(s, j + Len(LitBackendSets), k - 1)

\* parseBackendCompositeId: the three components and whether err is non-nil;
\* the errors of url.PathUnescape are dropped, leaving that component ""
parseBackendCompositeId(compositeId) ==
  LET parts == Split(compositeId, "/")
      match == CompositeIdRegexpMatch(compositeId)
  IN IF ~match \/ Len(parts) # 6
     THEN [backendName |-> << >>, backendSetName |-> << >>, loadBalancerId |-> << >>,
           err |-> TRUE]
     ELSE [backendName |-> PathUnescape(parts[6]).str,
           backendSetName |-> PathUnescape(parts[4]).str,
           loadBalancerId |-> PathUnescape(parts[2]).str,
           err |-> FALSE]

(***************************************************************************)
(* schema.ResourceData as the adapters use it: the resource id and the     *)
(* attributes, each absent (None) or holding a value.                      *)
(***************************************************************************)
BackendAttrs ==
  { "backendset_name", "ip_address", "load_balancer_id", "port", "backup", "drain",
    "offline", "weight", "name", "state" }

\* the zero value Get returns for an attribute that is not set
ZeroValue(k) ==
  IF k \in { "port", "weight" } THEN 0
  ELSE IF k \in { "backup", "drain", "offline" } THEN FALSE
  ELSE << >>

\* d.Get(k)
Get(d, k) == IF IsSome(d.a[k]) THEN Val(d.a[k]) ELSE ZeroValue(k)

\* d.GetOkExists(k): Some(value) when ok, None otherwise
GetOkExists(d, k) == d.a[k]

\* d.Set(k, v)
Set(d, k, v) == [d EXCEPT !.a[k] = Some(v)]

\* d.SetId(id)
SetId(d, id) == [d EXCEPT !.id = id]

\* d.Set(k, *ptr) under "if ptr != nil"
SetIfSome(d, k, o) == IF IsSome(o) THEN Set(d, k, Val(o)) ELSE d

(***************************************************************************)
(* Work request lifecycle states of the load balancer service              *)
(***************************************************************************)
WorkRequestLifecycleStates == { "ACCEPTED", "IN_PROGRESS", "FAILED", "SUCCEEDED" }

\* BackendResourceCrud.CreatedPending
BackendCreatedPending == { "IN_PROGRESS", "ACCEPTED" }

\* a CreatedTarget that leaves FAILED out
BackendCreatedTarget_SucceededOnly == { "SUCCEEDED" }

\* BackendResourceCrud.CreatedTarget
BackendCreatedTarget == { "SUCCEEDED", "FAILED" }

\* BackendResourceCrud.DeletedPending
BackendDeletedPending == { "IN_PROGRESS", "ACCEPTED" }

\* BackendResourceCrud.DeletedTarget
BackendDeletedTarget == { "SUCCEEDED", "FAILED" }

(***************************************************************************)
(* BackendResourceCrud                                                     *)
(***************************************************************************)
\* &BackendResourceCrud{}: Res and WorkRequest are nil
NewBackendCrud == [Res |-> None, WorkRequest |-> None]

\* BackendResourceCrud.buildID
buildID(d) == Get(d, "ip_address") \o << ":" >> \o Itoa(Get(d, "port"))

\* BackendResourceCrud.ID
BackendID(crud, d) ==
  IF IsSome(crud.WorkRequest)
  THEN IF Val(crud.WorkRequest).LifecycleState = "SUCCEEDED"
       THEN getBackendCompositeId(buildID(d), Get(d, "backendset_name"),
                                  Get(d, "load_balancer_id"))
       ELSE Val(crud.WorkRequest).Id
  ELSE << >>

\* the key under which lbBackendSetMutexes keeps a backend set's mutex
GetOrCreateBackendSetMutex(lbID, backendSetName) == << lbID, backendSetName >>

\* a GetMutex that takes one mutex per load balancer
GetMutex_PerLoadBalancer(d) ==
  GetOrCreateBackendSetMutex(Get(d, "load_balancer_id"), << >>)

\* BackendResourceCrud.GetMutex: the mutex, named by its key in lbBackendSetMutexes
GetMutex(d) ==
  GetOrCreateBackendSetMutex(Get(d, "load_balancer_id"), Get(d, "backendset_name"))

\* a request of the load balancer client with no field set
EmptyRequest ==
  [api |-> "", BackendName |-> None, BackendSetName |-> None, LoadBalancerId |-> None,
   Backup |-> None, Drain |-> None, IpAddress |-> None, Offline |-> None, Port |-> None,
   Weight |-> None, WorkRequestId |-> None]

\* the CreateBackendRequest that Create builds
CreateBackendRequest(d) ==
  [EmptyRequest EXCEPT !.api = "CreateBackend",
                       !.BackendSetName = GetOkExists(d, "backendset_name"),
                       !.Backup = GetOkExists(d, "backup"),
                       !.Drain = GetOkExists(d, "drain"),
                       !.IpAddress = GetOkExists(d, "ip_address"),
                       !.LoadBalancerId = GetOkExists(d, "load_balancer_id"),
                       !.Offline = GetOkExists(d, "offline"),
                       !.Port = GetOkExists(d, "port"),
                       !.Weight = GetOkExists(d, "weight")]

\* an update request that carries ip_address as the create request does
UpdateBackendRequest_WithIpAddress(d) ==
  [EmptyRequest EXCEPT !.api = "UpdateBackend",
                       !.BackendName = GetOkExists(d, "name"),
                       !.BackendSetName = GetOkExists(d, "backendset_name"),
                       !.Backup = GetOkExists(d, "backup"),
                       !.Drain = GetOkExists(d, "drain"),
                       !.IpAddress = GetOkExists(d, "ip_address"),
                       !.LoadBalancerId = GetOkExists(d, "load_balancer_id"),
                       !.Offline = GetOkExists(d, "offline"),
                       !.Weight = GetOkExists(d, "weight")]

\* the UpdateBackendRequest that Update builds
UpdateBackendRequest(d) ==
  [EmptyRequest EXCEPT !.api = "UpdateBackend",
                       !.BackendName = GetOkExists(d, "name"),
                       !.BackendSetName = GetOkExists(d, "backendset_name"),
                       !.Backup = GetOkExists(d, "backup"),
                       !.Drain = GetOkExists(d, "drain"),
                       !.LoadBalancerId = GetOkExists(d, "load_balancer_id"),
                       !.Offline = GetOkExists(d, "offline"),
                       !.Weight = GetOkExists(d, "weight")]

\* the DeleteBackendRequest that Delete builds
DeleteBackendRequest(d) ==
  [EmptyRequest EXCEPT !.api = "DeleteBackend",
                       !.BackendName = GetOkExists(d, "name"),
                       !.BackendSetName = GetOkExists(d, "backendset_name"),
                       !.LoadBalancerId = GetOkExists(d, "load_balancer_id")]

\* a get request built from the resource data alone, the id not looked at
GetBackendRequest_FromDataOnly(d) ==
  [EmptyRequest EXCEPT !.api = "GetBackend",
                       !.BackendName = Some(buildID(d)),
                       !.BackendSetName = GetOkExists(d, "backendset_name"),
                       !.LoadBalancerId = GetOkExists(d, "load_balancer_id")]

\* the GetBackendRequest that Get builds: from the resource data first, then,
\* unless the id is a work request id, from the id when it parses
GetBackendRequest(d) ==
  LET fromData == [EmptyRequest EXCEPT !.api = "GetBackend",
                                       !.BackendName = Some(buildID(d)),
                                       !.BackendSetName = GetOkExists(d, "backendset_name"),
                                       !.LoadBalancerId = GetOkExists(d, "load_balancer_id")]
      parsed == parseBackendCompositeId(d.id)
  IN IF ~HasPrefix(d.id, WorkRequestIdPrefix) /\ ~parsed.err
     THEN [fromData EXCEPT !.BackendName = Some(parsed.backendName),
                           !.BackendSetName = Some(parsed.backendSetName),
                           !.LoadBalancerId = Some(parsed.loadBalancerId)]
     ELSE fromData

\* the GetWorkRequestRequest that Create, Update and Delete build
GetWorkRequestRequest(workReqID) ==
  [EmptyRequest EXCEPT !.api = "GetWorkRequest", !.WorkRequestId = workReqID]

\* BackendResourceCrud.SetData
BackendSetData(crud, d) ==
  IF ~IsSome(crud.Res) THEN d
  ELSE LET res == Val(crud.Res)
           parsed == parseBackendCompositeId(d.id)
           d1 == IF ~parsed.err
                 THEN Set(Set(Set(d, "name", parsed.backendName),
                              "backendset_name", parsed.backendSetName),
                          "load_balancer_id", parsed.loadBalancerId)
                 ELSE d
           d2 == SetIfSome(d1, "backup", res.Backup)
           d3 == SetIfSome(d2, "drain", res.Drain)
           d4 == SetIfSome(d3, "ip_address", res.IpAddress)
           d5 == SetIfSome(d4, "name", res.Name)
           d6 == SetIfSome(d5, "offline", res.Offline)
           d7 == SetIfSome(d6, "port", res.Port)
       IN SetIfSome(d7, "weight", res.Weight)

(***************************************************************************)
(* Bounds of the model                                                     *)
(***************************************************************************)
\* concurrent backend operations (goroutines running a handler)
NumProcs == 2

\* handler invocations in one run
MaxOps == 2

Procs == 1..NumProcs

(***************************************************************************)
(* State.  Per goroutine p: D[p] is the *schema.ResourceData handed to the *)
(* handler, crud[p] the BackendResourceCrud it builds, pc[p] its position, *)
(* op[p] the handler, held[p] the mutex it holds, workReqID[p] the local   *)
(* of that name, crudRet[p] what Create/Update/Delete returned, getRet[p]  *)
(* what Get returned, err[p] what the handler returned ("-": nothing yet,  *)
(* "nil", or the error).  trace[p] lists the calls of the running          *)
(* Create/Update/Delete with their outcome, lastReq[p] is the last request *)
(* sent, idBefore[p] the resource id when the handler was entered.         *)
(* lbBackendSetMutexes holds the mutexes created so far and those that are  *)
(* locked; workRequests are the service's work requests, the i-th having   *)
(* the id WorkRequestId(i).                                                *)
(***************************************************************************)
VARIABLES D, crud, pc, op, held, workReqID, crudRet, getRet, err, trace, lastReq,
          idBefore, lbBackendSetMutexes, workRequests

backendVars ==
  << D, crud, pc, op, held, workReqID, crudRet, getRet, err, trace, lastReq,
     idBefore, lbBackendSetMutexes, workRequests >>

(***************************************************************************)
(* The DRG route distribution handlers run one at a time: drgD is their    *)
(* resource data, drgCrud the crud object of the last handler, drgOp and   *)
(* drgErr the last handler and what it returned, drgIn the resource data   *)
(* it was entered with, drgCalls the requests it sent, setDataIn the       *)
(* resource data SetData was called on (None when it was not called).      *)
(***************************************************************************)
VARIABLES drgD, drgCrud, drgOp, drgErr, drgIn, drgCalls, setDataIn

drgVars == << drgD, drgCrud, drgOp, drgErr, drgIn, drgCalls, setDataIn >>

(***************************************************************************)
(* The provider process: phase is "loading" until the package's init() has *)
(* run, resourceTable is the global resource table, registrations counts   *)
(* the calls of RegisterResource, and resourceType is the resource type    *)
(* whose handlers this run calls, opsStarted the handlers called so far.   *)
(***************************************************************************)
VARIABLES phase, resourceTable, registrations, resourceType, opsStarted

processVars == << phase, resourceTable, registrations, resourceType >>

(***************************************************************************)
(* A call of one of the package-level functions that keep no state: fn is  *)
(* the function called ("-" when none is), arg its argument and ret what   *)
(* it returned (None until it has returned).                               *)
(***************************************************************************)
VARIABLES fn, arg, ret

callVars == << fn, arg, ret >>

otherVars == << drgVars, processVars, callVars >>

vars == << backendVars, drgVars, processVars, opsStarted, callVars >>

\* the id the service gives its i-th work request
WorkRequestId(i) == WorkRequestIdPrefix \o Itoa(i)

\* the work request with that id, when there is one
WorkRequestIndex(id) == { i \in 1..Len(workRequests) : WorkRequestId(i) = id }

(***************************************************************************)
(* Inputs: the configurations and imported ids the handlers start from,    *)
(* and the Backend bodies the service may answer GetBackend with.          *)
(***************************************************************************)
LoadBalancerIds == { << "L" >> }

BackendSetNames == { << "s" >>, << "s", "/" >> }

NoAttrs == [k \in BackendAttrs |-> None]

\* a resource that is in the configuration and not yet created
NewBackend(lb, bs, weight) ==
  [id |-> << >>,
   a |-> [NoAttrs EXCEPT !["load_balancer_id"] = Some(lb),
                         !["backendset_name"] = Some(bs),
                         !["ip_address"] = Some(<< "h" >>),
                         !["port"] = Some(80),
                         !["backup"] = Some(FALSE),
                         !["weight"] = weight]]

\* terraform import: ImportStatePassthrough sets the id and nothing else
ImportedBackend(lb, bs) ==
  [id |-> getBackendCompositeId(<< "h", ":", "8", "0" >>, bs, lb), a |-> NoAttrs]

InitialBackendData ==
  { NewBackend(lb, bs, None) : lb \in LoadBalancerIds, bs \in BackendSetNames }
    \cup { ImportedBackend(lb, bs) : lb \in LoadBalancerIds, bs \in BackendSetNames }

\* oci_load_balancer.Backend bodies: every field set, or none
BackendResponses ==
  { [Backup |-> Some(TRUE), Drain |-> Some(FALSE), IpAddress |-> Some(<< "h" >>),
     Name |-> Some(<< "h", ":", "8", "0" >>), Offline |-> Some(FALSE), Port |-> Some(80),
     Weight |-> Some(2)],
    [Backup |-> None, Drain |-> None, IpAddress |-> None, Name |-> None,
     Offline |-> None, Port |-> None, Weight |-> None] }

BackendInit ==
  /\ crud = [p \in Procs |-> NewBackendCrud]
  /\ pc = [p \in Procs |-> "idle"]
  /\ op = [p \in Procs |-> "-"]
  /\ held = [p \in Procs |-> None]
  /\ workReqID = [p \in Procs |-> None]
  /\ crudRet = [p \in Procs |-> "-"]
  /\ getRet = [p \in Procs |-> "-"]
  /\ err = [p \in Procs |-> "-"]
  /\ trace = [p \in Procs |-> << >>]
  /\ lastReq = [p \in Procs |-> EmptyRequest]
  /\ idBefore = [p \in Procs |-> << >>]
  /\ lbBackendSetMutexes = [created |-> {}, locked |-> {}]
  /\ workRequests = << >>

(***************************************************************************)
(* The handlers.  A handler builds its BackendResourceCrud and runs the    *)
(* resource helper (CreateResource, ReadResource, UpdateResource,          *)
(* DeleteResource), which takes the mutex of GetMutex for the whole of a   *)
(* create, update or delete.                                               *)
(***************************************************************************)
\* entering a handler: sync := &BackendResourceCrud{}; sync.D = d
EnterHandler(p, name, d, first) ==
  /\ phase = "running"
  /\ resourceType = "oci_load_balancer_backend"
  /\ pc[p] = "idle"
  /\ opsStarted < MaxOps
  /\ opsStarted' = opsStarted + 1
  /\ D' = [D EXCEPT ![p] = d]
  /\ crud' = [crud EXCEPT ![p] = NewBackendCrud]
  /\ op' = [op EXCEPT ![p] = name]
  /\ pc' = [pc EXCEPT ![p] = first]
  /\ workReqID' = [workReqID EXCEPT ![p] = None]
  /\ crudRet' = [crudRet EXCEPT ![p] = "-"]
  /\ getRet' = [getRet EXCEPT ![p] = "-"]
  /\ err' = [err EXCEPT ![p] = "-"]
  /\ trace' = [trace EXCEPT ![p] = << >>]
  /\ lastReq' = [lastReq EXCEPT ![p] = EmptyRequest]
  /\ idBefore' = [idBefore EXCEPT ![p] = d.id]
  /\ UNCHANGED << otherVars, held, lbBackendSetMutexes, workRequests >>

\* createBackend: called for a resource that has no id yet
createBackend(p) ==
  /\ D[p].id = << >>
  /\ IsSome(D[p].a["load_balancer_id"])
  /\ EnterHandler(p, "Create", D[p], "lock")

\* readBackend: called for a resource that has an id
readBackend(p) ==
  /\ D[p].id # << >>
  /\ EnterHandler(p, "Read", D[p], "get_wr")

\* updateBackend: called with the new value of an updatable attribute in d
updateBackend(p) ==
  /\ D[p].id # << >>
  /\ IsSome(D[p].a["load_balancer_id"])
  /\ EnterHandler(p, "Update", Set(D[p], "weight", 3), "lock")

\* deleteBackend
deleteBackend(p) ==
  /\ D[p].id # << >>
  /\ IsSome(D[p].a["load_balancer_id"])
  /\ EnterHandler(p, "Delete", D[p], "lock")

\* mutex := sync.GetMutex(); mutex.Lock(): blocks while the mutex is locked
Lock(p) ==
  /\ pc[p] = "lock"
  /\ LET m == GetMutex(D[p]) IN
       /\ m \notin lbBackendSetMutexes.locked
       /\ lbBackendSetMutexes' =
            [created |-> lbBackendSetMutexes.created \cup { m },
             locked |-> lbBackendSetMutexes.locked \cup { m }]
       /\ held' = [held EXCEPT ![p] = Some(m)]
  /\ pc' = [pc EXCEPT ![p] = IF op[p] = "Delete" THEN "delete" ELSE "call"]
  /\ UNCHANGED << otherVars, opsStarted, D, crud, op, workReqID, crudRet, getRet, err, trace, lastReq,
                  idBefore, workRequests >>

\* Create/Update/Delete return e: the resource helper goes on from "finish"
\* when e is an error, and Create's helper first stores the id and reads back
CrudReturns(p, e, d) ==
  /\ crudRet' = [crudRet EXCEPT ![p] = e]
  /\ IF op[p] = "Create" /\ e = "nil"
     THEN /\ D' = [D EXCEPT ![p] = SetId(d, BackendID(crud'[p], d))]
          /\ pc' = [pc EXCEPT ![p] = "get_wr"]
     ELSE /\ D' = [D EXCEPT ![p] = d]
          /\ pc' = [pc EXCEPT ![p] = "finish"]

\* s.Client.CreateBackend / UpdateBackend / DeleteBackend with the request: the
\* service answers a call it accepts with the id of a new work request, which
\* becomes workReqID; a failed call leaves the response empty
CallBackendApi(p, request, ok) ==
  /\ lastReq' = [lastReq EXCEPT ![p] = request]
  /\ IF ok
     THEN /\ workRequests' = Append(workRequests, "ACCEPTED")
          /\ workReqID' = [workReqID EXCEPT ![p] = Some(WorkRequestId(Len(workRequests) + 1))]
          /\ trace' = [trace EXCEPT ![p] = Append(@, << request.api, "ok" >>)]
     ELSE /\ workRequests' = workRequests
          /\ workReqID' = [workReqID EXCEPT ![p] = None]
          /\ trace' = [trace EXCEPT ![p] = Append(@, << request.api, "error" >>)]

\* s.Client.GetWorkRequest for workReqID: the work request as the service has
\* it now, or None when the call fails (it fails for a nil id)
GetWorkRequestResponse(p, ok) ==
  IF ok /\ IsSome(workReqID[p]) /\ WorkRequestIndex(Val(workReqID[p])) # {}
  THEN LET i == CHOOSE i \in WorkRequestIndex(Val(workReqID[p])) : TRUE
       IN Some([Id |-> Val(workReqID[p]), LifecycleState |-> workRequests[i]])
  ELSE None

\* LoadBalancerWaitForWorkRequest on s.WorkRequest: polls the work request
\* until it has left ACCEPTED and IN_PROGRESS.  The outcomes of one poll:
\* "waiting", "nil", or the error (a failed call, a timeout, a FAILED request).
WaitOutcomes(wr) ==
  LET i == CHOOSE i \in WorkRequestIndex(wr.Id) : TRUE
      state == workRequests[i]
  IN { "wait error" }
       \cup (IF state \in { "ACCEPTED", "IN_PROGRESS" } THEN { "waiting" } ELSE {})
       \cup (IF state = "SUCCEEDED" THEN { "nil" } ELSE {})
       \cup (IF state = "FAILED" THEN { "nil", "WorkRequest FAILED" } ELSE {})

(***************************************************************************)
(* BackendResourceCrud.Create                                              *)
(***************************************************************************)
\* a Create that does not look at the error of CreateBackend and goes on to
\* fetch the work request, the way Delete treats DeleteBackend
Create_CreateBackend_ErrorIgnored(p) ==
  /\ pc[p] = "call" /\ op[p] = "Create"
  /\ \E ok \in BOOLEAN :
       /\ CallBackendApi(p, CreateBackendRequest(D[p]), ok)
       /\ pc' = [pc EXCEPT ![p] = "getwr"]
       /\ UNCHANGED << D, crud, crudRet >>
  /\ UNCHANGED << otherVars, opsStarted, op, held, getRet, err, idBefore, lbBackendSetMutexes >>

\* lines 181-229: build the request, call CreateBackend, return its error
Create_CreateBackend(p) ==
  /\ pc[p] = "call" /\ op[p] = "Create"
  /\ \E ok \in BOOLEAN :
       /\ CallBackendApi(p, CreateBackendRequest(D[p]), ok)
       /\ crud' = crud
       /\ IF ok THEN /\ pc' = [pc EXCEPT ![p] = "getwr"]
                     /\ UNCHANGED << D, crudRet >>
          ELSE CrudReturns(p, "api error", D[p])
  /\ UNCHANGED << otherVars, opsStarted, op, held, getRet, err, idBefore, lbBackendSetMutexes >>

\* a Create that returns nil as soon as the work request is stored, without
\* waiting for it
Create_GetWorkRequest_NoWait(p) ==
  /\ pc[p] = "getwr" /\ op[p] = "Create"
  /\ \E ok \in BOOLEAN :
       LET response == GetWorkRequestResponse(p, ok) IN
         /\ lastReq' = [lastReq EXCEPT ![p] = GetWorkRequestRequest(workReqID[p])]
         /\ IF IsSome(response)
            THEN /\ crud' = [crud EXCEPT ![p].WorkRequest = response]
                 /\ trace' = [trace EXCEPT ![p] = Append(@, << "GetWorkRequest", "ok" >>)]
                 /\ CrudReturns(p, "nil", D[p])
            ELSE /\ crud' = crud
                 /\ trace' = [trace EXCEPT ![p] = Append(@, << "GetWorkRequest", "error" >>)]
                 /\ CrudReturns(p, "api error", D[p])
  /\ UNCHANGED << otherVars, opsStarted, op, held, workReqID, getRet, err, idBefore,
                  lbBackendSetMutexes, workRequests >>

\* lines 231-239: fetch the work request, return the error or store it
Create_GetWorkRequest(p) ==
  /\ pc[p] = "getwr" /\ op[p] = "Create"
  /\ \E ok \in BOOLEAN :
       LET response == GetWorkRequestResponse(p, ok) IN
         /\ lastReq' = [lastReq EXCEPT ![p] = GetWorkRequestRequest(workReqID[p])]
         /\ IF IsSome(response)
            THEN /\ crud' = [crud EXCEPT ![p].WorkRequest = response]
                 /\ trace' = [trace EXCEPT ![p] = Append(@, << "GetWorkRequest", "ok" >>)]
                 /\ pc' = [pc EXCEPT ![p] = "wait"]
                 /\ UNCHANGED << D, crudRet >>
            ELSE /\ crud' = crud
                 /\ trace' = [trace EXCEPT ![p] = Append(@, << "GetWorkRequest", "error" >>)]
                 /\ CrudReturns(p, "api error", D[p])
  /\ UNCHANGED << otherVars, opsStarted, op, held, workReqID, getRet, err, idBefore,
                  lbBackendSetMutexes, workRequests >>

\* lines 240-244: wait for the work request, return the error or nil
Create_WaitForWorkRequest(p) ==
  /\ pc[p] = "wait" /\ op[p] = "Create"
  /\ \E e \in WaitOutcomes(Val(crud[p].WorkRequest)) \ { "waiting" } :
       /\ trace' = [trace EXCEPT ![p] =
                      Append(@, << "WaitForWorkRequest", IF e = "nil" THEN "ok" ELSE "error" >>)]
       /\ crud' = crud
       /\ CrudReturns(p, e, D[p])
  /\ UNCHANGED << otherVars, opsStarted, op, held, workReqID, getRet, err, lastReq, idBefore,
                  lbBackendSetMutexes, workRequests >>

(***************************************************************************)
(* BackendResourceCrud.Get                                                 *)
(***************************************************************************)
\* Get returns e: Update returns what Get returned
GetReturns(p, e) ==
  /\ getRet' = [getRet EXCEPT ![p] = e]
  /\ crudRet' = [crudRet EXCEPT ![p] = IF op[p] = "Update" THEN e ELSE @]
  /\ pc' = [pc EXCEPT ![p] = "finish"]

\* lines 247-254, LoadBalancerResourceGet: when the id is a work request id the
\* work request is fetched again, *s.WorkRequest and "state" are refreshed, a
\* FAILED request is an error and a request still under way ends Get with nil
Get_LoadBalancerResourceGet(p) ==
  /\ pc[p] = "get_wr"
  /\ IF HasPrefix(D[p].id, WorkRequestIdPrefix)
     THEN \E ok \in BOOLEAN :
            /\ lastReq' = [lastReq EXCEPT ![p] = GetWorkRequestRequest(Some(D[p].id))]
            /\ IF ok /\ WorkRequestIndex(D[p].id) # {}
               THEN LET i == CHOOSE i \in WorkRequestIndex(D[p].id) : TRUE
                        state == workRequests[i]
                    IN /\ crud' = [crud EXCEPT ![p].WorkRequest =
                                     IF IsSome(@) THEN Some([Id |-> D[p].id, LifecycleState |-> state])
                                     ELSE @]
                       /\ D' = [D EXCEPT ![p] = Set(@, "state", state)]
                       /\ IF state = "FAILED" THEN GetReturns(p, "WorkRequest FAILED")
                          ELSE IF state = "SUCCEEDED"
                               THEN /\ pc' = [pc EXCEPT ![p] = "get_backend"]
                                    /\ UNCHANGED << getRet, crudRet >>
                          ELSE GetReturns(p, "nil")
               ELSE /\ GetReturns(p, "api error")
                    /\ UNCHANGED << D, crud >>
     ELSE /\ pc' = [pc EXCEPT ![p] = "get_backend"]
          /\ UNCHANGED << D, crud, lastReq, getRet, crudRet >>
  /\ UNCHANGED << otherVars, opsStarted, op, held, workReqID, err, trace, idBefore,
                  lbBackendSetMutexes, workRequests >>

\* lines 255-290: build the request, call GetBackend, return the error or keep
\* the response in s.Res
Get_GetBackend(p) ==
  /\ pc[p] = "get_backend"
  /\ lastReq' = [lastReq EXCEPT ![p] = GetBackendRequest(D[p])]
  /\ \/ \E response \in BackendResponses :
          /\ crud' = [crud EXCEPT ![p].Res = Some(response)]
          /\ GetReturns(p, "nil")
     \/ /\ crud' = crud
        /\ GetReturns(p, "api error")
  /\ UNCHANGED << otherVars, opsStarted, D, op, held, workReqID, err, trace, idBefore,
                  lbBackendSetMutexes, workRequests >>

(***************************************************************************)
(* BackendResourceCrud.Update                                              *)
(***************************************************************************)
\* lines 292-335: build the request, call UpdateBackend, return its error
Update_UpdateBackend(p) ==
  /\ pc[p] = "call" /\ op[p] = "Update"
  /\ \E ok \in BOOLEAN :
       /\ CallBackendApi(p, UpdateBackendRequest(D[p]), ok)
       /\ crud' = crud
       /\ IF ok THEN /\ pc' = [pc EXCEPT ![p] = "getwr"]
                     /\ UNCHANGED << D, crudRet >>
          ELSE CrudReturns(p, "api error", D[p])
  /\ UNCHANGED << otherVars, opsStarted, op, held, getRet, err, idBefore, lbBackendSetMutexes >>

\* lines 337-345: fetch the work request, return the error or store it
Update_GetWorkRequest(p) ==
  /\ pc[p] = "getwr" /\ op[p] = "Update"
  /\ \E ok \in BOOLEAN :
       LET response == GetWorkRequestResponse(p, ok) IN
         /\ lastReq' = [lastReq EXCEPT ![p] = GetWorkRequestRequest(workReqID[p])]
         /\ IF IsSome(response)
            THEN /\ crud' = [crud EXCEPT ![p].WorkRequest = response]
                 /\ trace' = [trace EXCEPT ![p] = Append(@, << "GetWorkRequest", "ok" >>)]
                 /\ pc' = [pc EXCEPT ![p] = "wait"]
                 /\ UNCHANGED << D, crudRet >>
            ELSE /\ crud' = crud
                 /\ trace' = [trace EXCEPT ![p] = Append(@, << "GetWorkRequest", "error" >>)]
                 /\ CrudReturns(p, "api error", D[p])
  /\ UNCHANGED << otherVars, opsStarted, op, held, workReqID, getRet, err, idBefore,
                  lbBackendSetMutexes, workRequests >>

\* lines 346-351: wait for the work request, return the error or go on to Get
Update_WaitForWorkRequest(p) ==
  /\ pc[p] = "wait" /\ op[p] = "Update"
  /\ \E e \in WaitOutcomes(Val(crud[p].WorkRequest)) \ { "waiting" } :
       /\ trace' = [trace EXCEPT ![p] =
                      Append(@, << "WaitForWorkRequest", IF e = "nil" THEN "ok" ELSE "error" >>)]
       /\ crud' = crud
       /\ IF e = "nil" THEN /\ pc' = [pc EXCEPT ![p] = "get_wr"]
                            /\ UNCHANGED << D, crudRet >>
          ELSE CrudReturns(p, e, D[p])
  /\ UNCHANGED << otherVars, opsStarted, op, held, workReqID, getRet, err, lastReq, idBefore,
                  lbBackendSetMutexes, workRequests >>

(***************************************************************************)
(* BackendResourceCrud.Delete                                              *)
(***************************************************************************)
\* lines 354-377: nil at once for a work request id; else build the request and
\* call DeleteBackend, whose error is overwritten before it is looked at
Delete_DeleteBackend(p) ==
  /\ pc[p] = "delete" /\ op[p] = "Delete"
  /\ IF Contains(D[p].id, WorkRequestIdMarker)
     THEN /\ crud' = crud
          /\ CrudReturns(p, "nil", D[p])
          /\ UNCHANGED << lastReq, workRequests, workReqID, trace >>
     ELSE \E ok \in BOOLEAN :
            /\ CallBackendApi(p, DeleteBackendRequest(D[p]), ok)
            /\ pc' = [pc EXCEPT ![p] = "getwr"]
            /\ UNCHANGED << D, crud, crudRet >>
  /\ UNCHANGED << otherVars, opsStarted, op, held, getRet, err, idBefore, lbBackendSetMutexes >>

\* lines 379-388: fetch the work request, return the error or store it and
\* make its id the resource id
Delete_GetWorkRequest(p) ==
  /\ pc[p] = "getwr" /\ op[p] = "Delete"
  /\ \E ok \in BOOLEAN :
       LET response == GetWorkRequestResponse(p, ok) IN
         /\ lastReq' = [lastReq EXCEPT ![p] = GetWorkRequestRequest(workReqID[p])]
         /\ IF IsSome(response)
            THEN /\ crud' = [crud EXCEPT ![p].WorkRequest = response]
                 /\ trace' = [trace EXCEPT ![p] = Append(@, << "GetWorkRequest", "ok" >>)]
                 /\ D' = [D EXCEPT ![p] = SetId(@, Val(workReqID[p]))]
                 /\ pc' = [pc EXCEPT ![p] = "wait"]
                 /\ UNCHANGED crudRet
            ELSE /\ crud' = crud
                 /\ trace' = [trace EXCEPT ![p] = Append(@, << "GetWorkRequest", "error" >>)]
                 /\ CrudReturns(p, "api error", D[p])
  /\ UNCHANGED << otherVars, opsStarted, op, held, workReqID, getRet, err, idBefore,
                  lbBackendSetMutexes, workRequests >>

\* lines 389-393: wait for the work request, return the error or nil
Delete_WaitForWorkRequest(p) ==
  /\ pc[p] = "wait" /\ op[p] = "Delete"
  /\ \E e \in WaitOutcomes(Val(crud[p].WorkRequest)) \ { "waiting" } :
       /\ trace' = [trace EXCEPT ![p] =
                      Append(@, << "WaitForWorkRequest", IF e = "nil" THEN "ok" ELSE "error" >>)]
       /\ crud' = crud
       /\ CrudReturns(p, e, D[p])
  /\ UNCHANGED << otherVars, opsStarted, op, held, workReqID, getRet, err, lastReq, idBefore,
                  lbBackendSetMutexes, workRequests >>

(***************************************************************************)
(* The resource helpers, after the CRUD method has returned                *)
(***************************************************************************)
\* the handler returns e with the resource data d; the deferred Unlock runs and
\* the handler's locals are gone
HandlerReturns(p, e, d) ==
  /\ pc[p] = "finish"
  /\ err' = [err EXCEPT ![p] = e]
  /\ D' = [D EXCEPT ![p] = d]
  /\ pc' = [pc EXCEPT ![p] = "idle"]
  /\ held' = [held EXCEPT ![p] = None]
  /\ lbBackendSetMutexes' =
       [lbBackendSetMutexes EXCEPT !.locked =
          IF IsSome(held[p]) THEN @ \ { Val(held[p]) } ELSE @]
  /\ crud' = [crud EXCEPT ![p] = NewBackendCrud]
  /\ workReqID' = [workReqID EXCEPT ![p] = None]
  /\ crudRet' = [crudRet EXCEPT ![p] = "-"]
  /\ getRet' = [getRet EXCEPT ![p] = "-"]
  /\ trace' = [trace EXCEPT ![p] = << >>]
  /\ lastReq' = [lastReq EXCEPT ![p] = EmptyRequest]
  /\ UNCHANGED << otherVars, opsStarted, op, idBefore, workRequests >>

\* CreateResource: after Create and the read-back, the id is set from ID()
\* and SetData fills the resource data
CreateResource(p) ==
  /\ op[p] = "Create"
  /\ IF crudRet[p] # "nil" THEN HandlerReturns(p, crudRet[p], D[p])
     ELSE IF getRet[p] # "nil" THEN HandlerReturns(p, getRet[p], D[p])
     ELSE HandlerReturns(p, "nil",
                         BackendSetData(crud[p], SetId(D[p], BackendID(crud[p], D[p]))))

\* ReadResource: Get, then SetData
ReadResource(p) ==
  /\ op[p] = "Read"
  /\ IF getRet[p] # "nil" THEN HandlerReturns(p, getRet[p], D[p])
     ELSE HandlerReturns(p, "nil", BackendSetData(crud[p], D[p]))

\* UpdateResource: Update, then SetData
UpdateResource(p) ==
  /\ op[p] = "Update"
  /\ IF crudRet[p] # "nil" THEN HandlerReturns(p, crudRet[p], D[p])
     ELSE HandlerReturns(p, "nil", BackendSetData(crud[p], D[p]))

\* DeleteResource: Delete, then the resource leaves the state (the id is cleared)
DeleteResource(p) ==
  /\ op[p] = "Delete"
  /\ IF crudRet[p] # "nil" THEN HandlerReturns(p, crudRet[p], D[p])
     ELSE HandlerReturns(p, "nil", SetId(D[p], << >>))

(***************************************************************************)
(* The load balancer service works on its work requests                    *)
(***************************************************************************)
AdvanceWorkRequest(i) ==
  /\ i \in 1..Len(workRequests)
  /\ \/ /\ workRequests[i] = "ACCEPTED"
        /\ workRequests' = [workRequests EXCEPT ![i] = "IN_PROGRESS"]
     \/ /\ workRequests[i] = "IN_PROGRESS"
        /\ workRequests' = [workRequests EXCEPT ![i] = "SUCCEEDED"]
     \/ /\ workRequests[i] = "IN_PROGRESS"
        /\ workRequests' = [workRequests EXCEPT ![i] = "FAILED"]
  /\ UNCHANGED << otherVars, opsStarted, D, crud, pc, op, held, workReqID, crudRet, getRet, err, trace,
                  lastReq, idBefore, lbBackendSetMutexes >>

(***************************************************************************)
(* CoreDrgRouteDistributionResourceCrud.  A Go map is a function from its  *)
(* keys; a map that may be nil is None or Some(map).                       *)
(***************************************************************************)
DrgAttrs ==
  { "distribution_type", "drg_id", "defined_tags", "display_name", "freeform_tags",
    "compartment_id", "state", "time_created" }

EmptyMap == [k \in {} |-> << >>]

\* "oci_core_drg_route_distribution"
DrgResourceName == "oci_core_drg_route_distribution"

DrgRouteDistributionLifecycleStates ==
  { "PROVISIONING", "AVAILABLE", "TERMINATING", "TERMINATED" }

\* CoreDrgRouteDistributionResourceCrud.CreatedPending
DrgCreatedPending == { "PROVISIONING" }

\* CoreDrgRouteDistributionResourceCrud.CreatedTarget
DrgCreatedTarget == { "AVAILABLE" }

\* CoreDrgRouteDistributionResourceCrud.DeletedPending
DrgDeletedPending == { "TERMINATING" }

\* a DeletedTarget that takes AVAILABLE as well
DrgDeletedTarget_WithAvailable == { "TERMINATED", "AVAILABLE" }

\* CoreDrgRouteDistributionResourceCrud.DeletedTarget
DrgDeletedTarget == { "TERMINATED" }

\* a schema.Resource whose Update is the create handler
CoreDrgRouteDistributionResource_UpdateCreates ==
  [Create |-> "createCoreDrgRouteDistribution",
   Read |-> "readCoreDrgRouteDistribution",
   Update |-> "createCoreDrgRouteDistribution",
   Delete |-> "deleteCoreDrgRouteDistribution"]

\* CoreDrgRouteDistributionResource(): the handlers of the schema.Resource
CoreDrgRouteDistributionResource ==
  [Create |-> "createCoreDrgRouteDistribution",
   Read |-> "readCoreDrgRouteDistribution",
   Update |-> "updateCoreDrgRouteDistribution",
   Delete |-> "deleteCoreDrgRouteDistribution"]

\* RegisterResource(name, resource) on the global resource table
RegisterResource(table, name, resource) ==
  [n \in DOMAIN table \cup { name } |-> IF n = name THEN resource ELSE table[n]]

\* mapToDefinedTags: a key "namespace.key" goes to tags[namespace][key]; a key
\* that is not of that form is an error
mapToDefinedTags(rawMap) ==
  IF \E k \in DOMAIN rawMap : Len(Split(k, ".")) # 2
  THEN [err |-> TRUE, tags |-> None]
  ELSE [err |-> FALSE,
        tags |-> Some([ns \in { Split(k, ".")[1] : k \in DOMAIN rawMap } |->
                         [key \in { Split(k, ".")[2] :
                                      k \in { x \in DOMAIN rawMap : Split(x, ".")[1] = ns } } |->
                            rawMap[ns \o << "." >> \o key]]])]

\* definedTagsToMap: tags[namespace][key] goes to the key "namespace.key"
definedTagsToMap(tags) ==
  LET pairs == { << ns, key >> : ns \in DOMAIN tags, key \in UNION { DOMAIN tags[n] : n \in DOMAIN tags } }
      valid == { pr \in pairs : pr[2] \in DOMAIN tags[pr[1]] }
  IN [k \in { pr[1] \o << "." >> \o pr[2] : pr \in valid } |->
        LET pr == CHOOSE pr \in valid : pr[1] \o << "." >> \o pr[2] = k
        IN tags[pr[1]][pr[2]]]

\* objectMapToStringMap: the same keys, each value asserted to be a string
objectMapToStringMap(rawMap) == [k \in DOMAIN rawMap |-> rawMap[k]]

\* common.SDKTime.String(), for a time given in seconds: an abstraction of the
\* layout of time.Time.String()
TimeString(t) == << "t", "+" >> \o Itoa(t)

\* a request of the virtual network client with no field set
EmptyDrgRequest ==
  [api |-> "", DefinedTags |-> None, DisplayName |-> None, DistributionType |-> << >>,
   DrgId |-> None, FreeformTags |-> None, DrgRouteDistributionId |-> None]

\* the value an optional map attribute converts to, when it is present
ConvertedDefinedTags(d) ==
  IF IsSome(GetOkExists(d, "defined_tags"))
  THEN mapToDefinedTags(Val(GetOkExists(d, "defined_tags")))
  ELSE [err |-> FALSE, tags |-> None]

ConvertedFreeformTags(d) ==
  IF IsSome(GetOkExists(d, "freeform_tags"))
  THEN Some(objectMapToStringMap(Val(GetOkExists(d, "freeform_tags"))))
  ELSE None

\* a create request that always sets DisplayName, to "" when it is not configured
CreateDrgRouteDistributionRequest_DisplayNameAlways(d) ==
  [EmptyDrgRequest EXCEPT
     !.api = "CreateDrgRouteDistribution",
     !.DefinedTags = ConvertedDefinedTags(d).tags,
     !.DisplayName = IF IsSome(GetOkExists(d, "display_name"))
                     THEN GetOkExists(d, "display_name") ELSE Some(<< >>),
     !.DistributionType = IF IsSome(GetOkExists(d, "distribution_type"))
                          THEN Val(GetOkExists(d, "distribution_type")) ELSE << >>,
     !.DrgId = GetOkExists(d, "drg_id"),
     !.FreeformTags = ConvertedFreeformTags(d)]

\* the CreateDrgRouteDistributionRequest that Create builds (lines 147-175)
CreateDrgRouteDistributionRequest(d) ==
  [EmptyDrgRequest EXCEPT
     !.api = "CreateDrgRouteDistribution",
     !.DefinedTags = ConvertedDefinedTags(d).tags,
     !.DisplayName = GetOkExists(d, "display_name"),
     !.DistributionType = IF IsSome(GetOkExists(d, "distribution_type"))
                          THEN Val(GetOkExists(d, "distribution_type")) ELSE << >>,
     !.DrgId = GetOkExists(d, "drg_id"),
     !.FreeformTags = ConvertedFreeformTags(d)]

\* the UpdateDrgRouteDistributionRequest that Update builds (lines 204-226)
UpdateDrgRouteDistributionRequest(d) ==
  [EmptyDrgRequest EXCEPT
     !.api = "UpdateDrgRouteDistribution",
     !.DefinedTags = ConvertedDefinedTags(d).tags,
     !.DisplayName = GetOkExists(d, "display_name"),
     !.DrgRouteDistributionId = Some(d.id),
     !.FreeformTags = ConvertedFreeformTags(d)]

\* the GetDrgRouteDistributionRequest that Get builds (lines 187-192)
GetDrgRouteDistributionRequest(d) ==
  [EmptyDrgRequest EXCEPT !.api = "GetDrgRouteDistribution",
                          !.DrgRouteDistributionId = Some(d.id)]

\* the DeleteDrgRouteDistributionRequest that Delete builds (lines 238-243)
DeleteDrgRouteDistributionRequest(d) ==
  [EmptyDrgRequest EXCEPT !.api = "DeleteDrgRouteDistribution",
                          !.DrgRouteDistributionId = Some(d.id)]

\* CoreDrgRouteDistributionResourceCrud.ID
DrgID(res) == Val(res.Id)

\* a SetData that writes display_name unconditionally, "" for a nil DisplayName
DrgSetData_DisplayNameAlways(res, d) ==
  LET d1 == SetIfSome(d, "compartment_id", res.CompartmentId)
      d2 == IF IsSome(res.DefinedTags)
            THEN Set(d1, "defined_tags", definedTagsToMap(Val(res.DefinedTags)))
            ELSE d1
      d3 == Set(d2, "display_name",
                IF IsSome(res.DisplayName) THEN Val(res.DisplayName) ELSE << >>)
      d4 == Set(d3, "distribution_type", res.DistributionType)
      d5 == SetIfSome(d4, "drg_id", res.DrgId)
      d6 == Set(d5, "freeform_tags",
                IF IsSome(res.FreeformTags) THEN Val(res.FreeformTags) ELSE EmptyMap)
      d7 == Set(d6, "state", res.LifecycleState)
  IN IF IsSome(res.TimeCreated)
     THEN Set(d7, "time_created", TimeString(Val(res.TimeCreated)))
     ELSE d7

\* CoreDrgRouteDistributionResourceCrud.SetData
DrgSetData(res, d) ==
  LET d1 == SetIfSome(d, "compartment_id", res.CompartmentId)
      d2 == IF IsSome(res.DefinedTags)
            THEN Set(d1, "defined_tags", definedTagsToMap(Val(res.DefinedTags)))
            ELSE d1
      d3 == SetIfSome(d2, "display_name", res.DisplayName)
      d4 == Set(d3, "distribution_type", res.DistributionType)
      d5 == SetIfSome(d4, "drg_id", res.DrgId)
      d6 == Set(d5, "freeform_tags",
                IF IsSome(res.FreeformTags) THEN Val(res.FreeformTags) ELSE EmptyMap)
      d7 == Set(d6, "state", res.LifecycleState)
  IN IF IsSome(res.TimeCreated)
     THEN Set(d7, "time_created", TimeString(Val(res.TimeCreated)))
     ELSE d7

(***************************************************************************)
(* Inputs of the DRG route distribution handlers                           *)
(***************************************************************************)
NoDrgAttrs == [k \in DrgAttrs |-> None]

\* a defined_tags map whose keys are "namespace.key", and one with a bad key
GoodDefinedTags == [k \in { << "n", ".", "k" >> } |-> << "v" >>]

BadDefinedTags == [k \in { << "n", "k" >> } |-> << "v" >>]

FreeformTags == [k \in { << "f" >> } |-> << "w" >>]

\* a resource that is in the configuration and not yet created
NewDrg(definedTags, displayName, freeformTags) ==
  [id |-> << >>,
   a |-> [NoDrgAttrs EXCEPT !["distribution_type"] = Some(<< "I", "M", "P", "O", "R", "T" >>),
                            !["drg_id"] = Some(<< "g" >>),
                            !["defined_tags"] = definedTags,
                            !["display_name"] = displayName,
                            !["freeform_tags"] = freeformTags]]

\* terraform import: ImportStatePassthrough sets the id and nothing else
ImportedDrg(id) == [id |-> id, a |-> NoDrgAttrs]

InitialDrgData ==
  { NewDrg(dt, dn, ft) : dt \in { None, Some(GoodDefinedTags), Some(BadDefinedTags) },
                         dn \in { None, Some(<< "n" >>) },
                         ft \in { None, Some(FreeformTags) } }
    \cup { ImportedDrg(<< "d", "1" >>) }

\* oci_core.DrgRouteDistribution bodies: every optional field set, or none
DrgBodies ==
  { [Id |-> Some(<< "d", "1" >>), CompartmentId |-> Some(<< "c" >>),
     DefinedTags |-> Some([ns \in { << "n" >> } |-> [k \in { << "k" >> } |-> << "v" >>]]),
     DisplayName |-> Some(<< "m" >>), DistributionType |-> << "I", "M", "P", "O", "R", "T" >>,
     DrgId |-> Some(<< "g" >>), FreeformTags |-> Some(FreeformTags),
     LifecycleState |-> "AVAILABLE", TimeCreated |-> Some(7)],
    [Id |-> Some(<< "d", "1" >>), CompartmentId |-> None, DefinedTags |-> None,
     DisplayName |-> None, DistributionType |-> << >>, DrgId |-> None,
     FreeformTags |-> None, LifecycleState |-> "AVAILABLE", TimeCreated |-> None] }

\* the bodies the service may answer with while the resource is in one of states
DrgResponses(states) ==
  { [b EXCEPT !.LifecycleState = st] : b \in DrgBodies, st \in states }

(***************************************************************************)
(* The CRUD methods, as functions of the resource data and of what the     *)
(* service answers (ok: the call succeeds; response: its body): the error  *)
(* returned, s.Res afterwards and the requests sent.                       *)
(***************************************************************************)
\* CoreDrgRouteDistributionResourceCrud.Create
DrgCreate(d, ok, response) ==
  IF ConvertedDefinedTags(d).err
  THEN [err |-> "invalid defined_tags", Res |-> None, calls |-> << >>]
  ELSE IF ~ok
       THEN [err |-> "api error", Res |-> None,
             calls |-> << CreateDrgRouteDistributionRequest(d) >>]
  ELSE [err |-> "nil", Res |-> Some(response),
        calls |-> << CreateDrgRouteDistributionRequest(d) >>]

\* CoreDrgRouteDistributionResourceCrud.Get
DrgGet(d, ok, response) ==
  IF ~ok
  THEN [err |-> "api error", Res |-> None, calls |-> << GetDrgRouteDistributionRequest(d) >>]
  ELSE [err |-> "nil", Res |-> Some(response),
        calls |-> << GetDrgRouteDistributionRequest(d) >>]

\* CoreDrgRouteDistributionResourceCrud.Update
DrgUpdate(d, ok, response) ==
  IF ConvertedDefinedTags(d).err
  THEN [err |-> "invalid defined_tags", Res |-> None, calls |-> << >>]
  ELSE IF ~ok
       THEN [err |-> "api error", Res |-> None,
             calls |-> << UpdateDrgRouteDistributionRequest(d) >>]
  ELSE [err |-> "nil", Res |-> Some(response),
        calls |-> << UpdateDrgRouteDistributionRequest(d) >>]

\* CoreDrgRouteDistributionResourceCrud.Delete
DrgDelete(d, ok) ==
  [err |-> IF ok THEN "nil" ELSE "api error", Res |-> None,
   calls |-> << DeleteDrgRouteDistributionRequest(d) >>]

(***************************************************************************)
(* The handlers with their resource helpers                                *)
(***************************************************************************)
\* a handler returns e, leaving the resource data d
DrgHandlerReturns(name, in, d, res, calls, e, sdIn) ==
  /\ opsStarted < MaxOps
  /\ opsStarted' = opsStarted + 1
  /\ drgOp' = name
  /\ drgIn' = in
  /\ drgD' = d
  /\ drgCrud' = [Res |-> res]
  /\ drgCalls' = calls
  /\ drgErr' = e
  /\ setDataIn' = sdIn

\* createCoreDrgRouteDistribution, CreateResource: Create, SetId(ID()), then Get
\* is polled while the state is in CreatedPending; a state in CreatedTarget
\* ends the wait and SetData runs, any other state is an error
createCoreDrgRouteDistribution ==
  \E ok \in BOOLEAN : \E r1 \in DrgResponses({ "PROVISIONING", "AVAILABLE" }) :
    LET c == DrgCreate(drgD, ok, r1) IN
      IF c.err # "nil"
      THEN DrgHandlerReturns("Create", drgD, drgD, c.Res, c.calls, c.err, None)
      ELSE LET d1 == SetId(drgD, DrgID(r1)) IN
           IF r1.LifecycleState \in DrgCreatedTarget
           THEN DrgHandlerReturns("Create", drgD, DrgSetData(r1, d1), c.Res, c.calls,
                                  "nil", Some(d1))
           ELSE IF r1.LifecycleState \in DrgCreatedPending
                THEN \E ok2 \in BOOLEAN : \E r2 \in DrgResponses({ "AVAILABLE", "TERMINATING" }) :
                       LET g == DrgGet(d1, ok2, r2) IN
                         IF g.err # "nil"
                         THEN DrgHandlerReturns("Create", drgD, d1, c.Res, c.calls \o g.calls,
                                                g.err, None)
                         ELSE IF r2.LifecycleState \in DrgCreatedTarget
                              THEN DrgHandlerReturns("Create", drgD, DrgSetData(r2, d1), g.Res,
                                                     c.calls \o g.calls, "nil", Some(d1))
                         ELSE DrgHandlerReturns("Create", drgD, d1, g.Res, c.calls \o g.calls,
                                                "unexpected state", None)
           ELSE DrgHandlerReturns("Create", drgD, d1, c.Res, c.calls, "unexpected state", None)

\* readCoreDrgRouteDistribution, ReadResource: Get, then SetData
readCoreDrgRouteDistribution ==
  \E ok \in BOOLEAN : \E r \in DrgResponses({ "AVAILABLE", "PROVISIONING" }) :
    LET g == DrgGet(drgD, ok, r) IN
      IF g.err # "nil"
      THEN DrgHandlerReturns("Read", drgD, drgD, g.Res, g.calls, g.err, None)
      ELSE DrgHandlerReturns("Read", drgD, DrgSetData(r, drgD), g.Res, g.calls, "nil",
                             Some(drgD))

\* updateCoreDrgRouteDistribution, UpdateResource: called with the new values of
\* updatable attributes in d; Update, then SetData
updateCoreDrgRouteDistribution ==
  \E dn \in { << "n", "2" >> } : \E dt \in { drgD.a["defined_tags"], Some(BadDefinedTags) } :
    \E ok \in BOOLEAN : \E r \in DrgResponses({ "AVAILABLE" }) :
      LET d == [drgD EXCEPT !.a["display_name"] = Some(dn), !.a["defined_tags"] = dt]
          u == DrgUpdate(d, ok, r)
      IN IF u.err # "nil"
         THEN DrgHandlerReturns("Update", d, d, u.Res, u.calls, u.err, None)
         ELSE DrgHandlerReturns("Update", d, DrgSetData(r, d), u.Res, u.calls, "nil", Some(d))

\* deleteCoreDrgRouteDistribution, DeleteResource: Delete, then Get is polled
\* while the state is in DeletedPending; a state in DeletedTarget ends the wait
\* and the resource leaves the state (the id is cleared)
deleteCoreDrgRouteDistribution ==
  \E ok \in BOOLEAN : \E ok2 \in BOOLEAN : \E r \in DrgResponses({ "TERMINATED", "AVAILABLE" }) :
    LET x == DrgDelete(drgD, ok)
        g == DrgGet(drgD, ok2, r)
    IN IF x.err # "nil"
       THEN DrgHandlerReturns("Delete", drgD, drgD, x.Res, x.calls, x.err, None)
       ELSE IF g.err # "nil"
            THEN DrgHandlerReturns("Delete", drgD, drgD, g.Res, x.calls \o g.calls, g.err, None)
       ELSE IF r.LifecycleState \in DrgDeletedTarget
            THEN DrgHandlerReturns("Delete", drgD, SetId(drgD, << >>), g.Res,
                                   x.calls \o g.calls, "nil", None)
       ELSE DrgHandlerReturns("Delete", drgD, drgD, g.Res, x.calls \o g.calls,
                              "unexpected state", None)

\* the handler of that name
DrgHandler(name) ==
  \/ name = "createCoreDrgRouteDistribution" /\ createCoreDrgRouteDistribution
  \/ name = "readCoreDrgRouteDistribution" /\ readCoreDrgRouteDistribution
  \/ name = "updateCoreDrgRouteDistribution" /\ updateCoreDrgRouteDistribution
  \/ name = "deleteCoreDrgRouteDistribution" /\ deleteCoreDrgRouteDistribution

\* terraform calls a handler of the registered resource: Create for a resource
\* without an id, Read, Update or Delete for one with an id
DrgDispatch(kind) ==
  /\ phase = "running"
  /\ resourceType = DrgResourceName
  /\ DrgResourceName \in DOMAIN resourceTable
  /\ (kind = "Create") = (drgD.id = << >>)
  /\ kind \in { "Update", "Delete" } => IsSome(drgD.a["drg_id"])
  /\ DrgHandler(resourceTable[DrgResourceName][kind])
  /\ UNCHANGED << backendVars, phase, resourceTable, registrations, resourceType, callVars >>

\* func init(): runs once, before any handler
PackageInit ==
  /\ phase = "loading"
  /\ phase' = "running"
  /\ resourceTable' = RegisterResource(resourceTable, DrgResourceName,
                                       CoreDrgRouteDistributionResource)
  /\ registrations' = registrations + 1
  /\ UNCHANGED << backendVars, drgVars, resourceType, opsStarted, callVars >>

BackendStep(p) ==
  \/ createBackend(p)
  \/ readBackend(p)
  \/ updateBackend(p)
  \/ deleteBackend(p)
  \/ Lock(p)
  \/ Create_CreateBackend(p)
  \/ Create_GetWorkRequest(p)
  \/ Create_WaitForWorkRequest(p)
  \/ Get_LoadBalancerResourceGet(p)
  \/ Get_GetBackend(p)
  \/ Update_UpdateBackend(p)
  \/ Update_GetWorkRequest(p)
  \/ Update_WaitForWorkRequest(p)
  \/ Delete_DeleteBackend(p)
  \/ Delete_GetWorkRequest(p)
  \/ Delete_WaitForWorkRequest(p)
  \/ CreateResource(p)
  \/ ReadResource(p)
  \/ UpdateResource(p)
  \/ DeleteResource(p)

ServiceStep == \E i \in 1..Len(workRequests) : AdvanceWorkRequest(i)

BackendNext == (\E p \in Procs : BackendStep(p)) \/ ServiceStep

DrgNext == \E kind \in { "Create", "Read", "Update", "Delete" } : DrgDispatch(kind)

\* no stateless function is being called
NoCall ==
  /\ fn = "-"
  /\ arg = << >>
  /\ ret = None

DrgInit ==
  /\ drgCrud = [Res |-> None]
  /\ drgOp = "-"
  /\ drgErr = "-"
  /\ drgCalls = << >>
  /\ setDataIn = None

Init ==
  /\ phase = "loading"
  /\ resourceTable = [n \in {} |-> CoreDrgRouteDistributionResource]
  /\ registrations = 0
  /\ opsStarted = 0
  /\ NoCall
  /\ BackendInit
  /\ DrgInit
  /\ resourceType \in { "oci_load_balancer_backend", DrgResourceName }
  /\ IF resourceType = DrgResourceName
     THEN /\ drgD \in InitialDrgData
          /\ drgIn = drgD
          /\ D = [p \in Procs |-> ImportedBackend(<< "L" >>, << "s" >>)]
     ELSE /\ drgD = ImportedDrg(<< "d", "1" >>)
          /\ drgIn = drgD
          /\ D \in [Procs -> InitialBackendData]

Next == PackageInit \/ BackendNext \/ DrgNext

Spec == Init /\ [][Next]_vars

\* the DRG route distribution handlers alone
DrgOnlyInit == Init /\ resourceType = DrgResourceName

DrgOnlyNext == PackageInit \/ DrgNext

DrgSpec == DrgOnlyInit /\ [][DrgOnlyNext]_vars

(***************************************************************************)
(* Properties of BackendResourceCrud.Create and Update                     *)
(***************************************************************************)
\* the calls Create or Update makes, in the order of the code
CrudCallOrder(p) ==
  << IF op[p] = "Create" THEN "CreateBackend" ELSE "UpdateBackend",
     "GetWorkRequest", "WaitForWorkRequest" >>

\* Create or Update of p has returned nil (Update returns what Get returned)
ReturnedNil(p) == op[p] \in { "Create", "Update" } /\ crudRet[p] = "nil"

\* C1: in a Create or Update the calls are made in the order backend API call,
\* GetWorkRequest, wait; a call is made only when every earlier one succeeded;
\* an error of a call is what the method returns, at once; the work request
\* that was fetched is the one the API call named and it is in s.WorkRequest
\* when the wait starts; and a nil return has had the three calls succeed
C1_CallOrder ==
  \A p \in Procs :
    op[p] \in { "Create", "Update" } =>
      LET t == trace[p] IN
        /\ Len(t) <= 3
        /\ \A i \in 1..Len(t) : t[i][1] = CrudCallOrder(p)[i]
        /\ \A i \in 1..(Len(t) - 1) : t[i][2] = "ok"
        /\ (Len(t) > 0 /\ t[Len(t)][2] = "error") =>
             /\ crudRet[p] \notin { "-", "nil" }
             /\ pc[p] = "finish"
        /\ (Len(t) >= 2 /\ t[2][2] = "ok") =>
             /\ IsSome(workReqID[p])
             /\ IsSome(crud[p].WorkRequest)
        /\ pc[p] = "wait" =>
             /\ Len(t) = 2 /\ t[2][2] = "ok"
             /\ lastReq[p] = GetWorkRequestRequest(workReqID[p])
             /\ Val(crud[p].WorkRequest).Id = Val(workReqID[p])
        /\ ReturnedNil(p) => Len(t) = 3 /\ \A i \in 1..3 : t[i][2] = "ok"

\* an Update has returned nil after its three calls
C1_Witness ==
  \E p \in Procs :
    /\ op[p] = "Update" /\ crudRet[p] = "nil"
    /\ Len(trace[p]) = 3 /\ trace[p][3] = << "WaitForWorkRequest", "ok" >>

\* a Create has returned the error of one of its calls
C1_ErrorWitness ==
  \E p \in Procs :
    /\ op[p] = "Create" /\ crudRet[p] = "api error"
    /\ Len(trace[p]) = 2 /\ trace[p][2] = << "GetWorkRequest", "error" >>

(***************************************************************************)
(* Properties of the work request states the backend waits through         *)
(***************************************************************************)
\* C2: the pending states are IN_PROGRESS and ACCEPTED, the target states
\* SUCCEEDED and FAILED; they are disjoint and cover the four lifecycle
\* states, creation and deletion use the same sets, and every work request of
\* the service is in a state of exactly one of the two sets
C2_PendingTargetPartition ==
  /\ BackendCreatedPending = { "IN_PROGRESS", "ACCEPTED" }
  /\ BackendCreatedTarget = { "SUCCEEDED", "FAILED" }
  /\ BackendCreatedPending \cap BackendCreatedTarget = {}
  /\ BackendCreatedPending \cup BackendCreatedTarget = WorkRequestLifecycleStates
  /\ BackendDeletedPending = BackendCreatedPending
  /\ BackendDeletedTarget = BackendCreatedTarget
  /\ \A i \in 1..Len(workRequests) :
       /\ (workRequests[i] \in BackendCreatedPending) # (workRequests[i] \in BackendCreatedTarget)
       /\ (workRequests[i] \in BackendDeletedPending) # (workRequests[i] \in BackendDeletedTarget)

\* the service has a work request in a pending state and one in a target state
C2_Witness ==
  \E i, j \in 1..Len(workRequests) :
    /\ workRequests[i] \in BackendCreatedPending
    /\ workRequests[j] \in BackendDeletedTarget

(***************************************************************************)
(* Termination of the wait for a work request.  LiveSpec is Spec with no   *)
(* failing API call and no timeout, with a goroutine that can take a step  *)
(* of its Create, Update or Delete taking it, and with the service working *)
(* on every work request.                                                  *)
(***************************************************************************)
\* an API call has failed or a wait has timed out
ApiFailed ==
  \E p \in Procs :
    \/ crudRet[p] \in { "api error", "wait error" }
    \/ getRet[p] = "api error"
    \/ err[p] \in { "api error", "wait error" }
    \/ \E i \in 1..Len(trace[p]) :
         trace[p][i][2] = "error" /\ trace[p][i][1] # "WaitForWorkRequest"

\* Update's call of GetBackend returns: the step Get_GetBackend of an Update,
\* told by where it leaves p
UpdateGetBackendReturns(p) ==
  /\ op[p] = "Update" /\ pc[p] = "get_backend"
  /\ pc' = [pc EXCEPT ![p] = "finish"]

\* a step of the Create, Update or Delete that p is in
CrudStep(p) ==
  \/ Create_CreateBackend(p)
  \/ Create_GetWorkRequest(p)
  \/ Create_WaitForWorkRequest(p)
  \/ Update_UpdateBackend(p)
  \/ Update_GetWorkRequest(p)
  \/ Update_WaitForWorkRequest(p)
  \/ op[p] = "Update" /\ Get_LoadBalancerResourceGet(p)
  \/ Delete_DeleteBackend(p)
  \/ Delete_GetWorkRequest(p)
  \/ Delete_WaitForWorkRequest(p)

LiveNext == Next /\ ~ApiFailed'

LiveSpec ==
  /\ Init
  /\ [][LiveNext]_vars
  /\ \A p \in Procs : WF_vars(CrudStep(p) /\ ~ApiFailed')
  /\ \A p \in Procs : WF_pc(UpdateGetBackendReturns(p))
  /\ \A i \in 1..MaxOps : WF_vars(AdvanceWorkRequest(i))

\* p is inside BackendResourceCrud.Create, Update or Delete
InCrud(p) ==
  /\ op[p] \in { "Create", "Update", "Delete" }
  /\ crudRet[p] = "-"
  /\ pc[p] \in { "call", "delete", "getwr", "wait", "get_wr", "get_backend" }

\* the state the service has the work request of that id in
WorkRequestState(id) == workRequests[CHOOSE i \in WorkRequestIndex(id) : TRUE]

\* Create, Update or Delete of p has returned nil with a work request that is
\* still ACCEPTED or IN_PROGRESS: the one its API call started or, for the
\* Delete that returns at once, the one the resource id names
NilWhilePending(p) ==
  /\ op[p] \in { "Create", "Update", "Delete" }
  /\ crudRet[p] = "nil"
  /\ \/ /\ IsSome(workReqID[p])
        /\ WorkRequestState(Val(workReqID[p])) \in { "ACCEPTED", "IN_PROGRESS" }
     \/ /\ op[p] = "Delete"
        /\ WorkRequestIndex(idBefore[p]) # {}
        /\ WorkRequestState(idBefore[p]) \in { "ACCEPTED", "IN_PROGRESS" }

\* C3: when no API call fails and every work request reaches SUCCEEDED or
\* FAILED, a Create, Update or Delete that has started returns, and none
\* returns nil while its work request is still ACCEPTED or IN_PROGRESS
C3_WaitEnds ==
  /\ [](\A p \in Procs : ~NilWhilePending(p))
  /\ \A p \in Procs : InCrud(p) ~> ~InCrud(p)

\* a Delete has returned nil after the wait, its work request being SUCCEEDED
C3_Witness ==
  \E p \in Procs :
    /\ op[p] = "Delete" /\ crudRet[p] = "nil"
    /\ IsSome(workReqID[p])
    /\ WorkRequestState(Val(workReqID[p])) = "SUCCEEDED"
    /\ trace[p][Len(trace[p])] = << "WaitForWorkRequest", "ok" >>

(***************************************************************************)
(* The mutex of a backend set                                              *)
(***************************************************************************)
\* the pair (load_balancer_id, backendset_name) of the resource data
BackendSetOf(d) == << Get(d, "load_balancer_id"), Get(d, "backendset_name") >>

\* p is in the critical section of its create, update or delete
InCriticalSection(p) == IsSome(held[p])

\* C4: GetMutex gives two operations the same mutex exactly when they have the
\* same pair (load_balancer_id, backendset_name); every step of a Create,
\* Update or Delete is taken holding the mutex of its pair; and two operations
\* that are in their critical sections at once have different pairs
C4_BackendSetMutex ==
  \A p \in Procs :
    /\ (op[p] \in { "Create", "Update", "Delete" } /\ pc[p] \notin { "idle", "lock" }) =>
         InCriticalSection(p)
    /\ InCriticalSection(p) =>
         /\ Val(held[p]) = GetMutex(D[p])
         /\ Val(held[p]) \in lbBackendSetMutexes.locked
    /\ \A q \in Procs \ { p } :
         /\ (GetMutex(D[p]) = GetMutex(D[q])) = (BackendSetOf(D[p]) = BackendSetOf(D[q]))
         /\ (InCriticalSection(p) /\ InCriticalSection(q)) =>
              BackendSetOf(D[p]) # BackendSetOf(D[q])

\* two operations on different backend sets are in their critical sections at
\* once
C4_Witness ==
  \E p \in Procs : \E q \in Procs \ { p } :
    /\ InCriticalSection(p) /\ InCriticalSection(q)
    /\ BackendSetOf(D[p]) # BackendSetOf(D[q])

\* an operation waits for the mutex that another operation on its pair holds
C4_BlockedWitness ==
  \E p \in Procs : \E q \in Procs \ { p } :
    /\ InCriticalSection(p) /\ pc[q] = "lock"
    /\ GetMutex(D[q]) = Val(held[p])

(***************************************************************************)
(* Properties of the DRG route distribution adapter                        *)
(***************************************************************************)
\* C5: creation waits through PROVISIONING and accepts AVAILABLE, deletion
\* waits through TERMINATING and accepts TERMINATED; the pending and the
\* target set of an operation are disjoint and no state is a target of both;
\* a create that returned nil left the resource in a CreatedTarget state, a
\* delete that returned nil saw it in a DeletedTarget state
C5_DrgLifecycleSets ==
  /\ DrgCreatedPending = { "PROVISIONING" }
  /\ DrgCreatedTarget = { "AVAILABLE" }
  /\ DrgDeletedPending = { "TERMINATING" }
  /\ DrgDeletedTarget = { "TERMINATED" }
  /\ DrgCreatedPending \cap DrgCreatedTarget = {}
  /\ DrgDeletedPending \cap DrgDeletedTarget = {}
  /\ DrgCreatedTarget \cap DrgDeletedTarget = {}
  /\ (drgOp = "Create" /\ drgErr = "nil") =>
       /\ Val(drgCrud.Res).LifecycleState \in DrgCreatedTarget
       /\ Val(drgCrud.Res).LifecycleState \notin DrgCreatedPending \cup DrgDeletedTarget
       /\ drgD.a["state"] = Some(Val(drgCrud.Res).LifecycleState)
  /\ (drgOp = "Delete" /\ drgErr = "nil") =>
       /\ Val(drgCrud.Res).LifecycleState \in DrgDeletedTarget
       /\ Val(drgCrud.Res).LifecycleState \notin DrgDeletedPending \cup DrgCreatedTarget

\* a create has waited through PROVISIONING and returned nil
C5_Witness ==
  /\ drgOp = "Create" /\ drgErr = "nil"
  /\ Len(drgCalls) = 2
  /\ Val(drgCrud.Res).LifecycleState = "AVAILABLE"

\* a delete has returned nil on TERMINATED
C5_DeleteWitness ==
  /\ drgOp = "Delete" /\ drgErr = "nil"
  /\ Val(drgCrud.Res).LifecycleState = "TERMINATED"

\* the configured defined_tags of d cannot be converted
DefinedTagsInvalid(d) ==
  /\ IsSome(d.a["defined_tags"])
  /\ \E k \in DOMAIN Val(d.a["defined_tags"]) : Len(Split(k, ".")) # 2

\* C6: the request Create sends has DefinedTags, DisplayName, DistributionType,
\* DrgId and FreeformTags set exactly when the attribute is in the resource
\* data, to the configured value (defined_tags converted), and nothing else
\* set; when defined_tags cannot be converted Create returns that error and
\* sends no request
C6_CreateRequest ==
  drgOp = "Create" =>
    IF DefinedTagsInvalid(drgIn)
    THEN drgErr = "invalid defined_tags" /\ drgCalls = << >>
    ELSE /\ Len(drgCalls) >= 1
         /\ drgErr # "invalid defined_tags"
         /\ LET request == drgCalls[1] IN
              /\ request.api = "CreateDrgRouteDistribution"
              /\ IsSome(request.DefinedTags) = IsSome(drgIn.a["defined_tags"])
              /\ IsSome(request.DefinedTags) =>
                   definedTagsToMap(Val(request.DefinedTags)) = Val(drgIn.a["defined_tags"])
              /\ request.DisplayName = drgIn.a["display_name"]
              /\ request.DistributionType =
                   (IF IsSome(drgIn.a["distribution_type"])
                    THEN Val(drgIn.a["distribution_type"]) ELSE << >>)
              /\ request.DrgId = drgIn.a["drg_id"]
              /\ request.FreeformTags = drgIn.a["freeform_tags"]
              /\ request.DrgRouteDistributionId = None

\* Create has sent a request with defined_tags and freeform_tags set and
\* display_name unset
C6_Witness ==
  /\ drgOp = "Create" /\ drgErr = "nil"
  /\ IsSome(drgIn.a["defined_tags"]) /\ IsSome(drgIn.a["freeform_tags"])
  /\ ~IsSome(drgIn.a["display_name"])
  /\ IsSome(drgCalls[1].DefinedTags) /\ ~IsSome(drgCalls[1].DisplayName)

\* Create has returned the conversion error
C6_ErrorWitness ==
  /\ drgOp = "Create" /\ drgErr = "invalid defined_tags"
  /\ DefinedTagsInvalid(drgIn)

\* C7: SetData writes compartment_id, defined_tags, display_name, drg_id and
\* time_created when the response field is non-nil and keeps them otherwise;
\* it always writes distribution_type, freeform_tags and state; it leaves the
\* resource id and the set of attributes as they were, and returns nil
C7_SetData ==
  IsSome(setDataIn) =>
    LET before == Val(setDataIn)
        res == Val(drgCrud.Res)
        after == drgD
    IN /\ after.a["compartment_id"] =
            (IF IsSome(res.CompartmentId) THEN res.CompartmentId
             ELSE before.a["compartment_id"])
       /\ IF IsSome(res.DefinedTags)
          THEN /\ IsSome(after.a["defined_tags"])
               /\ mapToDefinedTags(Val(after.a["defined_tags"])).tags = res.DefinedTags
          ELSE after.a["defined_tags"] = before.a["defined_tags"]
       /\ after.a["display_name"] =
            (IF IsSome(res.DisplayName) THEN res.DisplayName ELSE before.a["display_name"])
       /\ after.a["drg_id"] = (IF IsSome(res.DrgId) THEN res.DrgId ELSE before.a["drg_id"])
       /\ after.a["time_created"] =
            (IF IsSome(res.TimeCreated) THEN Some(TimeString(Val(res.TimeCreated)))
             ELSE before.a["time_created"])
       /\ after.a["distribution_type"] = Some(res.DistributionType)
       /\ after.a["freeform_tags"] =
            Some(IF IsSome(res.FreeformTags) THEN Val(res.FreeformTags) ELSE EmptyMap)
       /\ after.a["state"] = Some(res.LifecycleState)
       /\ DOMAIN after.a = DrgAttrs
       /\ after.id = before.id
       /\ drgErr = "nil"

\* SetData has run on a response without DisplayName and DefinedTags, the
\* resource data holding both
C7_Witness ==
  /\ IsSome(setDataIn)
  /\ IsSome(Val(setDataIn).a["display_name"]) /\ IsSome(Val(setDataIn).a["defined_tags"])
  /\ ~IsSome(Val(drgCrud.Res).DisplayName) /\ ~IsSome(Val(drgCrud.Res).DefinedTags)
  /\ drgD.a["state"] = Some("AVAILABLE")

\* SetData has run on a response with every field set
C7_FullWitness ==
  /\ IsSome(setDataIn)
  /\ IsSome(Val(drgCrud.Res).DisplayName) /\ IsSome(Val(drgCrud.Res).TimeCreated)
  /\ drgD.a["time_created"] = Some(<< "t", "+", "7" >>)

\* C10: init registers the adapter once: from then on the resource table maps
\* "oci_core_drg_route_distribution" to the resource whose Create, Read, Update
\* and Delete are the four handlers of the adapter; before, nothing is
\* registered
C10_Registered ==
  /\ phase = "loading" => registrations = 0 /\ DOMAIN resourceTable = {}
  /\ phase = "running" =>
       /\ registrations = 1
       /\ DOMAIN resourceTable = { "oci_core_drg_route_distribution" }
       /\ resourceTable["oci_core_drg_route_distribution"] =
            [Create |-> "createCoreDrgRouteDistribution",
             Read |-> "readCoreDrgRouteDistribution",
             Update |-> "updateCoreDrgRouteDistribution",
             Delete |-> "deleteCoreDrgRouteDistribution"]

\* init has run and a handler found in the table has been called
C10_Witness ==
  /\ phase = "running" /\ registrations = 1
  /\ drgOp = "Update"

(***************************************************************************)
(* Update in place, and import                                             *)
(***************************************************************************)
\* the ForceNew attributes of the backend schema (lines 32-51) and of the DRG
\* route distribution schema (lines 30-39)
BackendForceNew == { "backendset_name", "ip_address", "load_balancer_id", "port" }

DrgForceNew == { "distribution_type", "drg_id" }

\* the attributes an update request of the backend carries
CarriedByUpdate(request) ==
  { k \in BackendAttrs :
      \/ k = "name" /\ IsSome(request.BackendName)
      \/ k = "backendset_name" /\ IsSome(request.BackendSetName)
      \/ k = "load_balancer_id" /\ IsSome(request.LoadBalancerId)
      \/ k = "ip_address" /\ IsSome(request.IpAddress)
      \/ k = "port" /\ IsSome(request.Port)
      \/ k = "backup" /\ IsSome(request.Backup)
      \/ k = "drain" /\ IsSome(request.Drain)
      \/ k = "offline" /\ IsSome(request.Offline)
      \/ k = "weight" /\ IsSome(request.Weight) }

\* the resource id is the one the Update was entered with
UpdateKeepsId ==
  /\ \A p \in Procs : op[p] = "Update" => D[p].id = idBefore[p]
  /\ drgOp = "Update" => drgD.id = drgIn.id

\* the DRG update request names the current id and carries neither
\* distribution_type nor drg_id
DrgUpdateRequestInPlace ==
  (drgOp = "Update" /\ Len(drgCalls) >= 1) =>
    /\ drgCalls[1].api = "UpdateDrgRouteDistribution"
    /\ drgCalls[1].DrgRouteDistributionId = Some(drgIn.id)
    /\ drgCalls[1].DistributionType = << >>
    /\ drgCalls[1].DrgId = None

\* C8, as it holds: Update leaves the resource id as it was; the DRG update
\* request names the current id and carries neither distribution_type nor
\* drg_id; the backend update request names the backend by the name,
\* backendset_name and load_balancer_id of the resource data and carries
\* neither ip_address nor port
C8_UpdateInPlace ==
  /\ UpdateKeepsId
  /\ DrgUpdateRequestInPlace
  /\ \A p \in Procs :
       (op[p] = "Update" /\ lastReq[p].api = "UpdateBackend") =>
         /\ lastReq[p].BackendName = D[p].a["name"]
         /\ lastReq[p].BackendSetName = D[p].a["backendset_name"]
         /\ lastReq[p].LoadBalancerId = D[p].a["load_balancer_id"]
         /\ CarriedByUpdate(lastReq[p]) \cap { "ip_address", "port" } = {}

\* C8, as stated: Update leaves the resource id as it was and no update
\* request carries a ForceNew attribute
C8_NoForceNewCarried ==
  /\ UpdateKeepsId
  /\ DrgUpdateRequestInPlace
  /\ \A p \in Procs :
       (op[p] = "Update" /\ lastReq[p].api = "UpdateBackend") =>
         CarriedByUpdate(lastReq[p]) \cap BackendForceNew = {}

\* an Update of a backend has sent its request, naming the backend set
C8_Witness ==
  \E p \in Procs :
    /\ op[p] = "Update" /\ lastReq[p].api = "UpdateBackend"
    /\ D[p].id = idBefore[p] /\ D[p].id # << >>
    /\ IsSome(lastReq[p].BackendSetName) /\ IsSome(lastReq[p].Weight)

\* an Update of a DRG route distribution has returned nil
C8_DrgWitness ==
  /\ drgOp = "Update" /\ drgErr = "nil"
  /\ drgCalls[1].DrgRouteDistributionId = Some(<< "d", "1" >>)

\* p is in a Read of a resource that holds its composite id and nothing else
ReadsImported(p) ==
  /\ op[p] = "Read" /\ pc[p] # "idle"
  /\ D[p].a = NoAttrs
  /\ ~parseBackendCompositeId(D[p].id).err

\* the Read of an imported backend returns nil: SetData has run
ImportedReadReturns(p) ==
  /\ ReadsImported(p) /\ pc[p] = "finish" /\ getRet[p] = "nil"
  /\ pc'[p] = "idle"

\* C9 for the backend, the request: the GetBackend request of such a Read names
\* the three components the id was composed of
ImportedGetRequest ==
  \A p \in Procs :
    (ReadsImported(p) /\ lastReq[p].api = "GetBackend") =>
      \E lb \in LoadBalancerIds : \E bs \in BackendSetNames :
        /\ D[p].id = getBackendCompositeId(<< "h", ":", "8", "0" >>, bs, lb)
        /\ lastReq[p].BackendName = Some(<< "h", ":", "8", "0" >>)
        /\ lastReq[p].BackendSetName = Some(bs)
        /\ lastReq[p].LoadBalancerId = Some(lb)
        /\ lastReq[p].BackendSetName = Some(parseBackendCompositeId(D[p].id).backendSetName)

\* C9 for the DRG route distribution: what a Read writes is what it writes
\* into resource data that holds the id alone, and its request names the id
DrgReadFromIdAndResponse ==
  (drgOp = "Read" /\ drgErr = "nil") =>
    /\ drgCalls = << [EmptyDrgRequest EXCEPT !.api = "GetDrgRouteDistribution",
                                            !.DrgRouteDistributionId = Some(drgIn.id)] >>
    /\ drgD.id = drgIn.id
    /\ LET fromIdAlone == DrgSetData(Val(drgCrud.Res), ImportedDrg(drgIn.id)) IN
         \A k \in DrgAttrs :
           \/ drgD.a[k] = fromIdAlone.a[k]
           \/ ~IsSome(fromIdAlone.a[k]) /\ drgD.a[k] = drgIn.a[k]

C9_DrgWitness ==
  /\ drgOp = "Read" /\ drgErr = "nil"
  /\ drgIn = ImportedDrg(<< "d", "1" >>)
  /\ IsSome(drgD.a["state"])

(***************************************************************************)
(* jms.WorkItemTypeEnum of the vendored SDK: the constants, the two        *)
(* mapping tables and the functions over them.  A Go map is a function on  *)
(* its keys; a lookup of a missing key yields the zero value and false.    *)
(***************************************************************************)
\* runes outside ASCII that the case mappings of package unicode relate to an
\* ASCII letter: KELVIN SIGN, LATIN CAPITAL LETTER I WITH DOT ABOVE, LATIN SMALL
\* LETTER DOTLESS I, LATIN SMALL LETTER LONG S
KelvinSign == "\\u212A"

CapitalIWithDot == "\\u0130"

SmallDotlessI == "\\u0131"

SmallLongS == "\\u017F"

\* "A".."Z" and "a".."z", the i-th of one being the i-th of the other in the
\* other case
UpperAlphabet == SubSeq(Printable, 34, 59)

LowerAlphabet == SubSeq(Printable, 66, 91)

UpperLetters == { UpperAlphabet[i] : i \in 1..26 }

LowerLetters == { LowerAlphabet[i] : i \in 1..26 }

\* the position of a letter in its alphabet
LetterIndex(c) == CHOOSE i \in 1..26 : UpperAlphabet[i] = c \/ LowerAlphabet[i] = c

\* unicode.ToLower
ToLowerRune(c) ==
  IF c \in UpperLetters THEN LowerAlphabet[LetterIndex(c)]
  ELSE IF c = KelvinSign THEN "k"
  ELSE IF c = CapitalIWithDot THEN "i"
  ELSE c

\* strings.ToLower: every rune mapped by unicode.ToLower
ToLower(s) == [i \in 1..Len(s) |-> ToLowerRune(s[i])]

WorkItemTypeLcm == << "L", "C", "M" >>

WorkItemTypeJfrCapture == << "J", "F", "R", "_", "C", "A", "P", "T", "U", "R", "E" >>

WorkItemTypeJfrUpload == << "J", "F", "R", "_", "U", "P", "L", "O", "A", "D" >>

WorkItemTypeCryptoAnalysis == << "C", "R", "Y", "P", "T", "O", "_", "A", "N", "A", "L", "Y", "S", "I", "S" >>

WorkItemTypeCryptoAnalysisMerge == << "C", "R", "Y", "P", "T", "O", "_", "A", "N", "A", "L", "Y", "S", "I", "S", "_", "M", "E", "R", "G", "E" >>

WorkItemTypeAdvancedUsageTracking == << "A", "D", "V", "A", "N", "C", "E", "D", "_", "U", "S", "A", "G", "E", "_", "T", "R", "A", "C", "K", "I", "N", "G" >>

WorkItemTypePerformanceTuning == << "P", "E", "R", "F", "O", "R", "M", "A", "N", "C", "E", "_", "T", "U", "N", "I", "N", "G" >>

WorkItemTypeJmigrateAnalysis == << "J", "M", "I", "G", "R", "A", "T", "E", "_", "A", "N", "A", "L", "Y", "S", "I", "S" >>

\* var mappingWorkItemTypeEnum
mappingWorkItemTypeEnum ==
  (<< "L", "C", "M" >> :> WorkItemTypeLcm)
    @@ (<< "J", "F", "R", "_", "C", "A", "P", "T", "U", "R", "E" >> :> WorkItemTypeJfrCapture)
    @@ (<< "J", "F", "R", "_", "U", "P", "L", "O", "A", "D" >> :> WorkItemTypeJfrUpload)
    @@ (<< "C", "R", "Y", "P", "T", "O", "_", "A", "N", "A", "L", "Y", "S", "I", "S" >> :> WorkItemTypeCryptoAnalysis)
    @@ (<< "C", "R", "Y", "P", "T", "O", "_", "A", "N", "A", "L", "Y", "S", "I", "S", "_", "M", "E", "R", "G", "E" >> :> WorkItemTypeCryptoAnalysisMerge)
    @@ (<< "A", "D", "V", "A", "N", "C", "E", "D", "_", "U", "S", "A", "G", "E", "_", "T", "R", "A", "C", "K", "I", "N", "G" >> :> WorkItemTypeAdvancedUsageTracking)
    @@ (<< "P", "E", "R", "F", "O", "R", "M", "A", "N", "C", "E", "_", "T", "U", "N", "I", "N", "G" >> :> WorkItemTypePerformanceTuning)
    @@ (<< "J", "M", "I", "G", "R", "A", "T", "E", "_", "A", "N", "A", "L", "Y", "S", "I", "S" >> :> WorkItemTypeJmigrateAnalysis)

\* the lower-case table with the last value left out
mappingWorkItemTypeEnumLowerCase_LastMissing ==
  (<< "l", "c", "m" >> :> WorkItemTypeLcm)
    @@ (<< "j", "f", "r", "_", "c", "a", "p", "t", "u", "r", "e" >> :> WorkItemTypeJfrCapture)
    @@ (<< "j", "f", "r", "_", "u", "p", "l", "o", "a", "d" >> :> WorkItemTypeJfrUpload)
    @@ (<< "c", "r", "y", "p", "t", "o", "_", "a", "n", "a", "l", "y", "s", "i", "s" >> :> WorkItemTypeCryptoAnalysis)
    @@ (<< "c", "r", "y", "p", "t", "o", "_", "a", "n", "a", "l", "y", "s", "i", "s", "_", "m", "e", "r", "g", "e" >> :> WorkItemTypeCryptoAnalysisMerge)
    @@ (<< "a", "d", "v", "a", "n", "c", "e", "d", "_", "u", "s", "a", "g", "e", "_", "t", "r", "a", "c", "k", "i", "n", "g" >> :> WorkItemTypeAdvancedUsageTracking)
    @@ (<< "p", "e", "r", "f", "o", "r", "m", "a", "n", "c", "e", "_", "t", "u", "n", "i", "n", "g" >> :> WorkItemTypePerformanceTuning)

\* var mappingWorkItemTypeEnumLowerCase
mappingWorkItemTypeEnumLowerCase ==
  (<< "l", "c", "m" >> :> WorkItemTypeLcm)
    @@ (<< "j", "f", "r", "_", "c", "a", "p", "t", "u", "r", "e" >> :> WorkItemTypeJfrCapture)
    @@ (<< "j", "f", "r", "_", "u", "p", "l", "o", "a", "d" >> :> WorkItemTypeJfrUpload)
    @@ (<< "c", "r", "y", "p", "t", "o", "_", "a", "n", "a", "l", "y", "s", "i", "s" >> :> WorkItemTypeCryptoAnalysis)
    @@ (<< "c", "r", "y", "p", "t", "o", "_", "a", "n", "a", "l", "y", "s", "i", "s", "_", "m", "e", "r", "g", "e" >> :> WorkItemTypeCryptoAnalysisMerge)
    @@ (<< "a", "d", "v", "a", "n", "c", "e", "d", "_", "u", "s", "a", "g", "e", "_", "t", "r", "a", "c", "k", "i", "n", "g" >> :> WorkItemTypeAdvancedUsageTracking)
    @@ (<< "p", "e", "r", "f", "o", "r", "m", "a", "n", "c", "e", "_", "t", "u", "n", "i", "n", "g" >> :> WorkItemTypePerformanceTuning)
    @@ (<< "j", "m", "i", "g", "r", "a", "t", "e", "_", "a", "n", "a", "l", "y", "s", "i", "s" >> :> WorkItemTypeJmigrateAnalysis)

\* the keys of mappingWorkItemTypeEnum as the literal lists them
mappingWorkItemTypeEnumKeys ==
  << << "L", "C", "M" >>,
     << "J", "F", "R", "_", "C", "A", "P", "T", "U", "R", "E" >>,
     << "J", "F", "R", "_", "U", "P", "L", "O", "A", "D" >>,
     << "C", "R", "Y", "P", "T", "O", "_", "A", "N", "A", "L", "Y", "S", "I", "S" >>,
     << "C", "R", "Y", "P", "T", "O", "_", "A", "N", "A", "L", "Y", "S", "I", "S", "_", "M", "E", "R", "G", "E" >>,
     << "A", "D", "V", "A", "N", "C", "E", "D", "_", "U", "S", "A", "G", "E", "_", "T", "R", "A", "C", "K", "I", "N", "G" >>,
     << "P", "E", "R", "F", "O", "R", "M", "A", "N", "C", "E", "_", "T", "U", "N", "I", "N", "G" >>,
     << "J", "M", "I", "G", "R", "A", "T", "E", "_", "A", "N", "A", "L", "Y", "S", "I", "S" >> >>

\* the orders in which a range loop may visit the keys of the map: any
Orders(keys) ==
  { [i \in 1..Len(keys) |-> keys[f[i]]] : f \in Permutations(1..Len(keys)) }

\* GetWorkItemTypeEnumValues, the range loop visiting the keys of
\* mappingWorkItemTypeEnum in that order
GetWorkItemTypeEnumValues(order) ==
  [i \in 1..Len(order) |-> mappingWorkItemTypeEnum[order[i]]]

\* GetWorkItemTypeEnumStringValues
GetWorkItemTypeEnumStringValues ==
  << << "L", "C", "M" >>,
     << "J", "F", "R", "_", "C", "A", "P", "T", "U", "R", "E" >>,
     << "J", "F", "R", "_", "U", "P", "L", "O", "A", "D" >>,
     << "C", "R", "Y", "P", "T", "O", "_", "A", "N", "A", "L", "Y", "S", "I", "S" >>,
     << "C", "R", "Y", "P", "T", "O", "_", "A", "N", "A", "L", "Y", "S", "I", "S", "_", "M", "E", "R", "G", "E" >>,
     << "A", "D", "V", "A", "N", "C", "E", "D", "_", "U", "S", "A", "G", "E", "_", "T", "R", "A", "C", "K", "I", "N", "G" >>,
     << "P", "E", "R", "F", "O", "R", "M", "A", "N", "C", "E", "_", "T", "U", "N", "I", "N", "G" >>,
     << "J", "M", "I", "G", "R", "A", "T", "E", "_", "A", "N", "A", "L", "Y", "S", "I", "S" >> >>

\* a lookup that compares the case too
GetMappingWorkItemTypeEnum_CaseSensitive(val) ==
  IF val \in DOMAIN mappingWorkItemTypeEnum
  THEN [enum |-> mappingWorkItemTypeEnum[val], ok |-> TRUE]
  ELSE [enum |-> << >>, ok |-> FALSE]

\* GetMappingWorkItemTypeEnum
GetMappingWorkItemTypeEnum(val) ==
  LET key == ToLower(val)
  IN IF key \in DOMAIN mappingWorkItemTypeEnumLowerCase
     THEN [enum |-> mappingWorkItemTypeEnumLowerCase[key], ok |-> TRUE]
     ELSE [enum |-> << >>, ok |-> FALSE]

(***************************************************************************)
(* fleetappsmanagement.PatchTypeConfigCategoryDetails of the vendored SDK. *)
(* The struct has no field, so its only value is the empty one.            *)
(***************************************************************************)
PatchTypeConfigCategoryDetails == { << >> }

\* the tag json:"configCategory" of DiscriminatorParam
LitConfigCategory == << "c", "o", "n", "f", "i", "g", "C", "a", "t", "e", "g", "o", "r", "y" >>

\* the discriminator value "PATCH_TYPE"
LitPatchType == << "P", "A", "T", "C", "H", "_", "T", "Y", "P", "E" >>

\* encoding/json: a string holding no character that needs escaping
JsonString(str) == << "\"" >> \o str \o << "\"" >>

RECURSIVE JsonMembers(_)
\* encoding/json: the members of an object, in field order, comma separated
JsonMembers(fields) ==
  IF fields = << >> THEN << >>
  ELSE JsonString(Head(fields).name) \o << ":" >> \o JsonString(Head(fields).value)
         \o (IF Tail(fields) = << >> THEN << >> ELSE << "," >> \o JsonMembers(Tail(fields)))

\* encoding/json Marshal of a struct of string fields
JsonMarshal(fields) == << "{" >> \o JsonMembers(fields) \o << "}" >>

RECURSIVE Join(_, _)
\* strings.Join
Join(elems, sep) ==
  IF elems = << >> THEN << >>
  ELSE IF Len(elems) = 1 THEN elems[1]
  ELSE elems[1] \o sep \o Join(Tail(elems), sep)

\* PatchTypeConfigCategoryDetails.ValidateEnumValue
ValidateEnumValue(m) ==
  LET errMessage == << >>
  IN IF Len(errMessage) > 0
     THEN [invalid |-> TRUE, err |-> Some(Join(errMessage, << NewLine >>))]
     ELSE [invalid |-> FALSE, err |-> None]

\* marshalling the receiver alone, without the discriminator
MarshalJSON_ReceiverOnly(m) == [buff |-> JsonMarshal(m), e |-> None]

\* PatchTypeConfigCategoryDetails.MarshalJSON: the discriminator, then the
\* promoted fields of the receiver (it has none)
MarshalJSON(m) ==
  [buff |-> JsonMarshal(<< [name |-> LitConfigCategory, value |-> LitPatchType] >> \o m),
   e |-> None]

(***************************************************************************)
(* Calls of the SDK functions.  The arguments of GetMappingWorkItemTypeEnum *)
(* are the enum strings in upper, lower and mixed case, with one letter    *)
(* replaced by a rune that a case mapping relates to it, with a character  *)
(* dropped, added or replaced, and every short string over the letters of  *)
(* "LCM".                                                                  *)
(***************************************************************************)
\* longest of the short arguments
MaxValLen == 3

EnumStrings == { GetWorkItemTypeEnumStringValues[i] : i \in 1..Len(GetWorkItemTypeEnumStringValues) }

\* s with the case of its i-th letter changed
ToggleAt(s, i) ==
  [s EXCEPT ![i] = IF @ \in UpperLetters THEN LowerAlphabet[LetterIndex(@)]
                   ELSE IF @ \in LowerLetters THEN UpperAlphabet[LetterIndex(@)]
                   ELSE @]

\* the runes outside ASCII related to the letter c by a case mapping
RelatedRunes(c) ==
  IF c \in { "K", "k" } THEN { KelvinSign }
  ELSE IF c \in { "I", "i" } THEN { CapitalIWithDot, SmallDotlessI }
  ELSE IF c \in { "S", "s" } THEN { SmallLongS }
  ELSE {}

Variants(v) ==
  { v, ToLower(v), Tail(v), SubSeq(v, 1, Len(v) - 1), v \o << "X" >>, << " " >> \o v,
    v \o << NewLine >>, [i \in 1..Len(v) |-> IF v[i] = "_" THEN "-" ELSE v[i]] }
    \cup { ToggleAt(v, i) : i \in 1..Len(v) }
    \cup { ToggleAt(ToLower(v), i) : i \in 1..Len(v) }
    \cup UNION { { [v EXCEPT ![i] = r] : r \in RelatedRunes(v[i]) } : i \in 1..Len(v) }
    \cup UNION { { [ToLower(v) EXCEPT ![i] = r] : r \in RelatedRunes(v[i]) } : i \in 1..Len(v) }

\* the strings of n of the letters of "LCM", in either case
ShortVals(n) == [1..n -> { "L", "l", "C", "c", "M", "m" }]

\* val is an argument of GetMappingWorkItemTypeEnum
WorkItemTypeArg(val) ==
  \/ \E n \in 0..MaxValLen : val \in ShortVals(n)
  \/ \E v \in EnumStrings : val \in Variants(v)

\* nothing but the call happens: the resources are as a run leaves them at rest
AtRest ==
  /\ phase = "loading"
  /\ resourceTable = [n \in {} |-> CoreDrgRouteDistributionResource]
  /\ registrations = 0
  /\ opsStarted = 0
  /\ BackendInit
  /\ DrgInit
  /\ resourceType = DrgResourceName
  /\ drgD = ImportedDrg(<< "d", "1" >>)
  /\ drgIn = drgD
  /\ D = [p \in Procs |-> ImportedBackend(<< "L" >>, << "s" >>)]

Returns(r) ==
  /\ ret = None
  /\ ret' = Some(r)
  /\ UNCHANGED << fn, arg, backendVars, drgVars, processVars, opsStarted >>

Call_GetMappingWorkItemTypeEnum ==
  /\ fn = "GetMappingWorkItemTypeEnum"
  /\ Returns(GetMappingWorkItemTypeEnum(arg))

Call_GetWorkItemTypeEnumValues ==
  /\ fn = "GetWorkItemTypeEnumValues"
  /\ ret = None
  /\ \E order \in Orders(mappingWorkItemTypeEnumKeys) : Returns(GetWorkItemTypeEnumValues(order))

Call_GetWorkItemTypeEnumStringValues ==
  /\ fn = "GetWorkItemTypeEnumStringValues"
  /\ Returns(GetWorkItemTypeEnumStringValues)

Call_ValidateEnumValue ==
  /\ fn = "ValidateEnumValue"
  /\ Returns(ValidateEnumValue(arg))

Call_MarshalJSON ==
  /\ fn = "MarshalJSON"
  /\ Returns(MarshalJSON(arg))

SdkInit ==
  /\ AtRest
  /\ ret = None
  /\ \/ fn = "GetMappingWorkItemTypeEnum" /\ WorkItemTypeArg(arg)
     \/ fn \in { "GetWorkItemTypeEnumValues", "GetWorkItemTypeEnumStringValues" } /\ arg = << >>
     \/ fn \in { "ValidateEnumValue", "MarshalJSON" } /\ arg \in PatchTypeConfigCategoryDetails

SdkNext ==
  \/ Call_GetMappingWorkItemTypeEnum
  \/ Call_GetWorkItemTypeEnumValues
  \/ Call_GetWorkItemTypeEnumStringValues
  \/ Call_ValidateEnumValue
  \/ Call_MarshalJSON

SdkSpec == SdkInit /\ [][SdkNext]_vars

(***************************************************************************)
(* Properties of GetMappingWorkItemTypeEnum                                *)
(***************************************************************************)
\* the allowable values of WorkItemTypeEnum
WorkItemTypeEnum ==
  { WorkItemTypeLcm, WorkItemTypeJfrCapture, WorkItemTypeJfrUpload, WorkItemTypeCryptoAnalysis,
    WorkItemTypeCryptoAnalysisMerge, WorkItemTypeAdvancedUsageTracking,
    WorkItemTypePerformanceTuning, WorkItemTypeJmigrateAnalysis }

\* unicode.ToUpper
ToUpperRune(c) ==
  IF c \in LowerLetters THEN UpperAlphabet[LetterIndex(c)]
  ELSE IF c = SmallDotlessI THEN "I"
  ELSE IF c = SmallLongS THEN "S"
  ELSE c

\* strings.ToUpper
ToUpper(s) == [i \in 1..Len(s) |-> ToUpperRune(s[i])]

\* the least rune of the simple case folding orbit of c (unicode.SimpleFold)
FoldRune(c) ==
  IF c \in LowerLetters THEN UpperAlphabet[LetterIndex(c)]
  ELSE IF c = KelvinSign THEN "K"
  ELSE IF c = SmallLongS THEN "S"
  ELSE c

\* strings.EqualFold: equal under simple Unicode case folding
EqualFold(s, t) ==
  Len(s) = Len(t) /\ \A i \in 1..Len(s) : FoldRune(s[i]) = FoldRune(t[i])

IsASCII(s) ==
  \A i \in 1..Len(s) :
    s[i] \notin { KelvinSign, CapitalIWithDot, SmallDotlessI, SmallLongS }

\* GetMappingWorkItemTypeEnum has returned
MappingReturned == fn = "GetMappingWorkItemTypeEnum" /\ IsSome(ret)

C11_KelvinWitness ==
  /\ MappingReturned
  /\ Val(ret).ok
  /\ \E i \in 1..Len(arg) : arg[i] = KelvinSign
  /\ Val(ret).enum # ToUpper(arg)

\* a spelling with the long s is rejected although it equals a value under
\* case folding
C11_LongSWitness ==
  /\ MappingReturned
  /\ ~Val(ret).ok
  /\ \E v \in WorkItemTypeEnum : EqualFold(arg, v)

\* a string that is no spelling of a value is rejected
C11_RejectWitness ==
  /\ MappingReturned
  /\ ~Val(ret).ok
  /\ Val(ret).enum = << >>
  /\ arg = << "L", "C" >>

(***************************************************************************)
(* Properties of the tables of WorkItemTypeEnum                            *)
(***************************************************************************)
\* the elements of a slice, the values of a map
Elements(q) == { q[i] : i \in DOMAIN q }

\* C12: the values returned by GetWorkItemTypeEnumValues, the strings
\* returned by GetWorkItemTypeEnumStringValues, the values of
\* mappingWorkItemTypeEnum and those of mappingWorkItemTypeEnumLowerCase are
\* the same eight values; every key of mappingWorkItemTypeEnum is the string
\* of its value, every key of the lower-case map the lower-case form of its
\* value, and GetMappingWorkItemTypeEnum maps every element of
\* GetWorkItemTypeEnumStringValues to itself with ok = true.
C12_TablesAgree ==
  /\ Cardinality(WorkItemTypeEnum) = 8
  /\ Elements(mappingWorkItemTypeEnum) = WorkItemTypeEnum
  /\ Elements(mappingWorkItemTypeEnumLowerCase) = WorkItemTypeEnum
  /\ \A k \in DOMAIN mappingWorkItemTypeEnum : k = mappingWorkItemTypeEnum[k]
  /\ \A k \in DOMAIN mappingWorkItemTypeEnumLowerCase :
       k = ToLower(mappingWorkItemTypeEnumLowerCase[k])
  /\ fn = "GetWorkItemTypeEnumValues" /\ IsSome(ret) =>
       Len(Val(ret)) = 8 /\ Elements(Val(ret)) = WorkItemTypeEnum
  /\ fn = "GetWorkItemTypeEnumStringValues" /\ IsSome(ret) =>
       /\ Len(Val(ret)) = 8
       /\ Elements(Val(ret)) = WorkItemTypeEnum
       /\ \A i \in 1..Len(Val(ret)) :
            GetMappingWorkItemTypeEnum(Val(ret)[i]) = [enum |-> Val(ret)[i], ok |-> TRUE]
  /\ MappingReturned /\ arg \in Elements(GetWorkItemTypeEnumStringValues) =>
       Val(ret) = [enum |-> arg, ok |-> TRUE]

\* GetWorkItemTypeEnumValues has returned the values in an order that is not
\* the order of the literal
C12_Witness ==
  /\ fn = "GetWorkItemTypeEnumValues"
  /\ IsSome(ret)
  /\ Val(ret)[1] = WorkItemTypeJmigrateAnalysis
  /\ Val(ret)[8] = WorkItemTypeLcm

\* GetMappingWorkItemTypeEnum has returned for the last of the string values
C12_StringValueWitness ==
  /\ MappingReturned
  /\ arg = GetWorkItemTypeEnumStringValues[8]
  /\ Val(ret).ok

(***************************************************************************)
(* Properties of PatchTypeConfigCategoryDetails                            *)
(***************************************************************************)
\* the text is a JSON object
IsJsonObject(text) == Len(text) >= 2 /\ text[1] = "{" /\ text[Len(text)] = "}"

\* the string values of the member of that name in a JSON object of string
\* members
JsonField(text, name) ==
  LET key == JsonString(name) \o << ":", "\"" >>
      starts == { a \in 2..Len(text) : OccursAt(text, key, a) /\ text[a - 1] \in { "{", "," } }
      closing(a) == CHOOSE b \in (a + Len(key))..Len(text) :
                      /\ text[b] = "\""
                      /\ \A h \in (a + Len(key))..(b - 1) : text[h] # "\""
  IN { SubSeq(text, a + Len(key), closing(a) - 1) : a \in starts }

\* C13: MarshalJSON always produces an object whose member configCategory is
\* "PATCH_TYPE", and ValidateEnumValue always returns (false, nil).
C13_PatchTypeDiscriminator ==
  /\ fn = "MarshalJSON" /\ IsSome(ret) =>
       /\ Val(ret).e = None
       /\ IsJsonObject(Val(ret).buff)
       /\ JsonField(Val(ret).buff, LitConfigCategory) = { LitPatchType }
  /\ fn = "ValidateEnumValue" /\ IsSome(ret) =>
       Val(ret) = [invalid |-> FALSE, err |-> None]

\* MarshalJSON has returned {"configCategory":"PATCH_TYPE"}
C13_Witness ==
  /\ fn = "MarshalJSON"
  /\ arg \in PatchTypeConfigCategoryDetails
  /\ IsSome(ret)
  /\ Val(ret).buff = << "{", "\"" >> \o LitConfigCategory \o << "\"", ":", "\"" >>
                       \o LitPatchType \o << "\"", "}" >>

\* ValidateEnumValue has returned
C13_ValidateWitness ==
  /\ fn = "ValidateEnumValue"
  /\ arg \in PatchTypeConfigCategoryDetails
  /\ IsSome(ret)
  /\ ~Val(ret).invalid

(***************************************************************************)
(* Calls of getBackendCompositeId and parseBackendCompositeId.  The        *)
(* argument of parseBackendCompositeId is [compositeId, from]: from is the *)
(* argument of the call of getBackendCompositeId that built the id (as     *)
(* SetId(ID()) followed by Get does), or None for an id given from         *)
(* outside (terraform import).                                             *)
(***************************************************************************)
\* longest of the names the ids are built from
MaxNameLen == 3

NameAlphabet == { "/", "%", ":", "+", "a", "2", NewLine }

\* the names of n characters
Names(n) == [1..n -> NameAlphabet]

FewNames == { << >>, << "a" >>, << "/" >> }

\* the arguments of getBackendCompositeId: one name of any form, two of few
NameTriple(t) ==
  \E n \in 0..MaxNameLen : \E x \in Names(n), y \in FewNames, z \in FewNames :
    t \in { [backendName |-> x, backendSetName |-> y, loadBalancerId |-> z],
            [backendName |-> y, backendSetName |-> x, loadBalancerId |-> z],
            [backendName |-> y, backendSetName |-> z, loadBalancerId |-> x] }

\* "loadBalancers", "backendSets", "backends"
SegLoadBalancers == SubSeq(LitLoadBalancers, 1, Len(LitLoadBalancers) - 1)

SegBackendSets == SubSeq(LitBackendSets, 2, Len(LitBackendSets) - 1)

SegBackends == SubSeq(LitBackends, 2, Len(LitBackends) - 1)

RECURSIVE JoinSegments(_)
\* the segments with a "/" between them
JoinSegments(segs) ==
  IF Len(segs) = 1 THEN segs[1] ELSE segs[1] \o << "/" >> \o JoinSegments(Tail(segs))

\* segments an id given from outside may have where the three literals and
\* the three names belong
FirstSegments ==
  { SegLoadBalancers, << "x" >> \o SegLoadBalancers, SegLoadBalancers \o << "x" >>,
    SubSeq(SegLoadBalancers, 1, 12), << >> }

ThirdSegments == { SegBackendSets, << "x" >> \o SegBackendSets, SegBackends }

FifthSegments == { SegBackends, SegBackends \o << "x" >>, SegBackendSets }

NameSegments ==
  { << >>, << "a" >>, << "a", NewLine, "b" >>, << "%", "2", "F" >>, << "%", "z" >>, << ":" >> }

\* ids given from outside have six segments, five, or seven
\* the argument of parseBackendCompositeId for an id given from outside
OutsideArg(a) ==
  \E s1 \in FirstSegments, s2 \in NameSegments, s4 \in NameSegments :
    \/ \E s3 \in ThirdSegments, s5 \in FifthSegments, s6 \in NameSegments :
         a = [compositeId |-> JoinSegments(<< s1, s2, s3, s4, s5, s6 >>), from |-> None]
    \/ a = [compositeId |-> JoinSegments(<< s1, s2, SegBackendSets, s4, SegBackends >>),
            from |-> None]
    \/ \E s6 \in NameSegments, s7 \in NameSegments :
         a = [compositeId |-> JoinSegments(<< s1, s2, SegBackendSets, s4, SegBackends, s6, s7 >>),
              from |-> None]

Call_getBackendCompositeId ==
  /\ fn = "getBackendCompositeId"
  /\ Returns(getBackendCompositeId(arg.backendName, arg.backendSetName, arg.loadBalancerId))

\* the id just built is handed to parseBackendCompositeId
ParseBuiltId ==
  /\ fn = "getBackendCompositeId"
  /\ IsSome(ret)
  /\ fn' = "parseBackendCompositeId"
  /\ arg' = [compositeId |-> Val(ret), from |-> Some(arg)]
  /\ ret' = None
  /\ UNCHANGED << backendVars, drgVars, processVars, opsStarted >>

Call_parseBackendCompositeId ==
  /\ fn = "parseBackendCompositeId"
  /\ Returns(parseBackendCompositeId(arg.compositeId))

CompositeIdInit ==
  /\ AtRest
  /\ ret = None
  /\ \/ fn = "getBackendCompositeId" /\ NameTriple(arg)
     \/ /\ fn = "parseBackendCompositeId"
        /\ OutsideArg(arg)

CompositeIdNext ==
  \/ Call_getBackendCompositeId
  \/ ParseBuiltId
  \/ Call_parseBackendCompositeId

CompositeIdSpec == CompositeIdInit /\ [][CompositeIdNext]_vars

(***************************************************************************)
(* Properties of the backend composite id                                  *)
(***************************************************************************)
\* parseBackendCompositeId has returned
ParseReturned == fn = "parseBackendCompositeId" /\ IsSome(ret)

\* C14: parseBackendCompositeId applied to the id that getBackendCompositeId
\* built from backendName, backendSetName and loadBalancerId returns exactly
\* these three and a nil error, whatever the three strings hold.
C14_RoundTrip ==
  ParseReturned /\ IsSome(arg.from) =>
    Val(ret) = [backendName |-> Val(arg.from).backendName,
                backendSetName |-> Val(arg.from).backendSetName,
                loadBalancerId |-> Val(arg.from).loadBalancerId,
                err |-> FALSE]

\* the round trip of a backend set name holding "/", "%" and ":"
C14_Witness ==
  /\ ParseReturned
  /\ IsSome(arg.from)
  /\ Val(arg.from).backendSetName = << "/", "%", ":" >>
  /\ Val(ret).backendSetName = << "/", "%", ":" >>
  /\ ~Val(ret).err

\* the round trip of three empty names
C14_EmptyWitness ==
  /\ ParseReturned
  /\ IsSome(arg.from)
  /\ Val(arg.from) = [backendName |-> << >>, backendSetName |-> << >>, loadBalancerId |-> << >>]
  /\ ~Val(ret).err

\* six "/"-separated segments, the first "loadBalancers", the third
\* "backendSets", the fifth "backends"
WellFormedId(id) ==
  LET parts == Split(id, "/")
  IN /\ Len(parts) = 6
     /\ parts[1] = SegLoadBalancers
     /\ parts[3] = SegBackendSets
     /\ parts[5] = SegBackends

\* C15: parseBackendCompositeId returns a nil error exactly when the id has
\* six "/"-separated segments of which the first is "loadBalancers", the
\* third "backendSets" and the fifth "backends"; for every other string it
\* returns the error and three empty components.
C15_AcceptsOnlyWellFormed ==
  ParseReturned =>
    /\ ~Val(ret).err <=> WellFormedId(arg.compositeId)
    /\ Val(ret).err => /\ Val(ret).backendName = << >>
                       /\ Val(ret).backendSetName = << >>
                       /\ Val(ret).loadBalancerId = << >>

\* s ends with suffix
HasSuffix(s, suffix) ==
  Len(s) >= Len(suffix) /\ SubSeq(s, Len(s) - Len(suffix) + 1, Len(s)) = suffix

\* what the unanchored pattern and the count of segments accept together:
\* six segments, the first ending with "loadBalancers", the third
\* "backendSets", the fifth "backends", no newline in the second and fourth
AcceptedId(id) ==
  LET parts == Split(id, "/")
  IN /\ Len(parts) = 6
     /\ HasSuffix(parts[1], SegLoadBalancers)
     /\ parts[3] = SegBackendSets
     /\ parts[5] = SegBackends
     /\ NoNewLine(parts[2], 1, Len(parts[2]))
     /\ NoNewLine(parts[4], 1, Len(parts[4]))

\* C15, as the code behaves: the error is nil exactly for the ids of
\* AcceptedId, and with the error the three components are empty.
C15_AcceptedIds ==
  ParseReturned =>
    /\ ~Val(ret).err <=> AcceptedId(arg.compositeId)
    /\ Val(ret).err => /\ Val(ret).backendName = << >>
                       /\ Val(ret).backendSetName = << >>
                       /\ Val(ret).loadBalancerId = << >>

\* an id whose first segment is not "loadBalancers" is parsed without error
C15_PrefixWitness ==
  /\ ParseReturned
  /\ ~Val(ret).err
  /\ ~WellFormedId(arg.compositeId)

\* an id of the six segments is refused for a newline in a name
C15_NewLineWitness ==
  /\ ParseReturned
  /\ Val(ret).err
  /\ WellFormedId(arg.compositeId)
====
